---------------------------- MODULE Spec2Model ----------------------------
(***************************************************************************)
(* A model of the statement pipeline of wio-bank-challenge:                *)
(*   services/anomaly_detector.py      AnomalyDetector                     *)
(*   services/categorizer.py           TransactionCategorizer              *)
(*   services/transaction_extractor.py TransactionExtractor                *)
(*   services/reminder_service.py      ReminderService (payoff math,       *)
(*                                     payment reminders)                  *)
(*   services/reward_analyzer.py       RewardAnalyzer (interest charges)   *)
(*   services/email_parser.py          EmailParser                         *)
(*   main.py                           CreditCardReminderApp               *)
(*                                                                         *)
(* Each component has its own specification (SpecAnomaly, SpecCategorizer, *)
(* SpecExtractor, SpecPayoff, SpecInterest, SpecCharges, SpecEmail,        *)
(* SpecApp, SpecReminderService, ...); the variables of the other          *)
(* components stay at their idle values.                                   *)
(*                                                                         *)
(* Numbers.  Python floats are carried as exact fixed-point integers:      *)
(*   amounts  in units of 1/AmountScale dollar,                            *)
(*   scores and confidences in hundredths (ScoreOne = 1.00), rounded down, *)
(*   dates    in minutes since an epoch (MinutesPerDay per calendar day).  *)
(* Threshold comparisons are made exactly, by cross-multiplication.        *)
(***************************************************************************)
EXTENDS Integers, Sequences, FiniteSets, TLC

VARIABLES
    \* ---- AnomalyDetector ------------------------------------------------
    transactions,   \* the batch handed to detect_anomalies (list of dicts)
    pooled,         \* detect_anomalies' local list `anomalies` before the merge
    anomalies,      \* the list detect_anomalies returned
    ran,            \* the detectors the last detect_anomalies call ran
    ml_run,         \* what the fit of the unsupervised stage did in that call
    ad_pc,          \* "idle" | "returned" | "raised"
    \* ---- TransactionCategorizer ---------------------------------------
    categories,     \* self.categories: the category table, in insertion order
    nlp,            \* whether spacy.load succeeded (self.nlp is not None)
    rules_added,    \* how many add_custom_rule calls were made
    cat_input,      \* the list as the caller handed it to categorize_transactions
    cat_txs,        \* the same list after the call annotated it in place
    cat_returned,   \* the list categorize_transactions returned
    cat_stages,     \* per transaction, what each stage of the cascade returned
    ct_pc,          \* "idle" | "returned" | "raised"
    \* ---- TransactionExtractor -----------------------------------------
    ex_text,        \* the text handed to extract_transactions, as its lines
    ex_is_tx,       \* is_transaction_line of each cleaned line, as the call saw it
    ex_candidates,  \* extract_transactions' local list before deduplication
    ex_result,      \* the list extract_transactions returned
    ex_pc,          \* "idle" | "returned"
    dd_input,       \* a list handed to deduplicate_transactions directly
    dd_output,      \* the list that call returned
    dd_pc,          \* "idle" | "returned"
    \* ---- ReminderService._calculate_payoff_time -----------------------
    pf_balance,     \* the argument balance, in cents
    pf_payment,     \* the argument payment, in cents
    pf_rate,        \* the argument monthly_rate, a fraction
    remaining,      \* the local `remaining`
    months,         \* the local `months`
    pf_iterations,  \* how many times the body of the while loop has run
    pf_result,      \* the value returned
    total_interest, \* the local `total_interest` of _calculate_total_interest
    pf_pc,          \* "idle" | "loop" | "returned"
    \* ---- one categorizer and one detector over several calls -----------
    lc_vectorizer,  \* the texts self.vectorizer was last fit on
    lc_scaler,      \* the feature rows self.scaler was last fit on
    lc_forest,      \* the scaled rows self.isolation_forest was last fit on
    lc_library,     \* what the fitted library objects returned, per fit and query
    lc_last,        \* the last call, its result, and a new instance's result
    lc_calls,       \* how many calls were made
    \* ---- EmailParser.extract_transactions_from_email --------------------
    email_data,     \* the dict parse_email built
    em_transactions,\* the list extract_transactions_from_email returned
    em_pc,          \* "idle" | "parsed" | "returned"
    \* ---- CreditCardReminderApp (main.py) --------------------------------
    inbox,          \* the payments scan_emails reads out of the mailbox
    payments,       \* the rows of the table payments, in order of id
    delivered,      \* the reminders the SMTP server accepted, in order
    today,          \* datetime.now(), in days
    \* ---- ReminderService and its payment_reminders table ---------------
    credit_cards,   \* due_date of each CreditCard row
    payment_reminders, \* the rows of the table payment_reminders, by id
    rm_returned     \* what the last create_payment_reminder returned

ad_vars == <<transactions, pooled, anomalies, ran, ml_run, ad_pc>>

ct_vars == <<categories, nlp, rules_added, cat_input, cat_txs, cat_returned,
             cat_stages, ct_pc>>

ex_vars == <<ex_text, ex_is_tx, ex_candidates, ex_result, ex_pc,
             dd_input, dd_output, dd_pc>>

\* what the operations of one component leave alone: the other components
pf_vars == <<pf_balance, pf_payment, pf_rate, remaining, months, pf_iterations,
             pf_result, total_interest, pf_pc>>

lc_vars == <<lc_vectorizer, lc_scaler, lc_forest, lc_library, lc_last, lc_calls>>

em_vars == <<email_data, em_transactions, em_pc>>

app_vars == <<inbox, payments, delivered, today>>

rm_vars == <<credit_cards, payment_reminders, rm_returned>>

not_ad_vars == <<ct_vars, ex_vars, pf_vars, lc_vars, em_vars, app_vars, rm_vars>>

not_ct_vars == <<ad_vars, ex_vars, pf_vars, lc_vars, em_vars, app_vars, rm_vars>>

not_ex_vars == <<ad_vars, ct_vars, pf_vars, lc_vars, em_vars, app_vars, rm_vars>>

not_pf_vars == <<ad_vars, ct_vars, ex_vars, lc_vars, em_vars, app_vars, rm_vars>>

not_lc_vars == <<ad_vars, ct_vars, ex_vars, pf_vars, em_vars, app_vars, rm_vars>>

not_em_vars == <<ad_vars, ct_vars, ex_vars, pf_vars, lc_vars, app_vars, rm_vars>>

not_app_vars == <<ad_vars, ct_vars, ex_vars, pf_vars, lc_vars, em_vars, rm_vars>>

not_rm_vars == <<ad_vars, ct_vars, ex_vars, pf_vars, lc_vars, em_vars, app_vars>>

-----------------------------------------------------------------------------
(* Generic helpers                                                          *)

Abs(x) == IF x < 0 THEN -x ELSE x

Min(a, b) == IF a <= b THEN a ELSE b

Max(a, b) == IF a >= b THEN a ELSE b

Range(s) == {s[i] : i \in DOMAIN s}

\* dict.get(key, default)
Get(d, key, default) == IF key \in DOMAIN d THEN d[key] ELSE default

RECURSIVE SumSeq(_)
SumSeq(s) == IF s = <<>> THEN 0 ELSE Head(s) + SumSeq(Tail(s))

RECURSIVE InsertSorted(_, _)
InsertSorted(x, s) ==
    IF s = <<>> THEN <<x>>
    ELSE IF x <= Head(s) THEN <<x>> \o s
    ELSE <<Head(s)>> \o InsertSorted(x, Tail(s))

RECURSIVE SortAsc(_)
SortAsc(s) == IF s = <<>> THEN <<>> ELSE InsertSorted(Head(s), SortAsc(Tail(s)))

RECURSIVE Flatten(_)
\* the concatenation of a sequence of sequences
Flatten(ss) == IF ss = <<>> THEN <<>> ELSE Head(ss) \o Flatten(Tail(ss))

\* score 1.00 in hundredths
ScoreOne == 100

\* floor(sqrt(x)) for 0 <= x < (ScoreOne+1)^2
ISqrt(x) == CHOOSE k \in 0..ScoreOne : k * k <= x /\ (k + 1) * (k + 1) > x

\* floor(ScoreOne^2 * num / den) for 0 <= num < den, by long division
\* (keeps every intermediate product inside 32 bits)
Ratio10000(num, den) ==
    LET x1 == (ScoreOne * num) \div den
        r1 == (ScoreOne * num) % den
    IN  ScoreOne * x1 + (ScoreOne * r1) \div den

\* the root without the cap of min(..., 1.0), whole units above 1.0
UncappedRoot(num, den) ==
    IF num >= den THEN ScoreOne * ISqrt(num \div den) ELSE ISqrt(Ratio10000(num, den))

\* floor(ScoreOne * sqrt(num / den)) capped at ScoreOne: min(sqrt(num/den), 1.0)
CappedRoot(num, den) ==
    IF num >= den THEN ScoreOne ELSE ISqrt(Ratio10000(num, den))

-----------------------------------------------------------------------------
(* AnomalyDetector (services/anomaly_detector.py)                           *)

\* amounts are carried in units of 1/AmountScale dollar
AmountScale == 2

MinutesPerDay == 1440

\* detect_anomalies: `if len(transactions) < 10: return []`
MinBatch == 10

\* detect_anomalies: `if len(df) > 20:` guards the unsupervised stage
MlMinBatch == 20

\* self.anomaly_types: the keys of the dict built by __init__
anomaly_types ==
    {"amount_outlier", "frequency_anomaly", "time_anomaly", "location_anomaly",
     "merchant_anomaly", "category_anomaly", "velocity_anomaly", "amount_pattern"}

\* _prepare_dataframe: one row per transaction, defaults from dict.get, the
\* id defaulting to the 0-based position; hour and calendar day from the date
prepare_dataframe(txs) ==
    <<>> \o
    [i \in 1..Len(txs) |->
        [id       |-> Get(txs[i], "id", i - 1),
         amount   |-> Get(txs[i], "amount", 0),
         merchant |-> Get(txs[i], "merchant", "Unknown"),
         category |-> Get(txs[i], "category", "Other"),
         date     |-> txs[i].date,
         hour     |-> (txs[i].date % MinutesPerDay) \div 60,
         day      |-> txs[i].date \div MinutesPerDay,
         row      |-> i]]

Amounts(df) == [i \in 1..Len(df) |-> df[i].amount]

\* 20 * (the q-th quantile of the sorted list, q = k/20), by linear
\* interpolation between the two nearest ranks (numpy.percentile's and
\* pandas.quantile's default)
Quantile20(sorted, k) ==
    LET n  == Len(sorted)
        p  == (n - 1) * k
        lo == p \div 20 + 1
        hi == Min(lo + 1, n)
    IN  20 * sorted[lo] + (p % 20) * (sorted[hi] - sorted[lo])

\* n^2 times the population variance of a list
VarTimesNSquared(s) ==
    Len(s) * SumSeq([i \in 1..Len(s) |-> s[i] * s[i]]) - SumSeq(s) * SumSeq(s)

Finding(r, type, score) ==
    [transaction_id |-> r.id, anomaly_type |-> type, score |-> score, row |-> r.row]

\* an amount detector with the fences at 1.5 * IQR
detect_amount_anomalies_narrow(df) ==
    LET amounts == Amounts(df)
        sorted  == SortAsc(amounts)
        n       == Len(df)
        q1      == Quantile20(sorted, 5)
        q3      == Quantile20(sorted, 15)
        iqr     == q3 - q1
        median2 == Quantile20(sorted, 10) \div 10
        v       == VarTimesNSquared(amounts)
        score(a) == LET d2 == Abs(2 * a - median2)
                    IN  CappedRoot(d2 * d2 * n * n, 4 * v)
    IN  Flatten([i \in 1..n |->
            IF 40 * df[i].amount > 2 * q3 + 3 * iqr \/ 40 * df[i].amount < 2 * q1 - 3 * iqr
            THEN <<Finding(df[i], "amount_outlier", score(df[i].amount))>>
            ELSE <<>>])

\* _detect_amount_anomalies: Tukey fences at 3 * IQR, score
\* min(|amount - median| / std, 1.0) with the population std (numpy.std)
detect_amount_anomalies(df) ==
    LET amounts == Amounts(df)
        sorted  == SortAsc(amounts)
        n       == Len(df)
        q1      == Quantile20(sorted, 5)
        q3      == Quantile20(sorted, 15)
        iqr     == q3 - q1
        lower   == q1 - 3 * iqr
        upper   == q3 + 3 * iqr
        median2 == Quantile20(sorted, 10) \div 10        \* 2 * median
        v       == VarTimesNSquared(amounts)
        score(a) == LET d2 == Abs(2 * a - median2)
                    IN  CappedRoot(d2 * d2 * n * n, 4 * v)
    IN  Flatten([i \in 1..n |->
            IF 20 * df[i].amount > upper \/ 20 * df[i].amount < lower
            THEN <<Finding(df[i], "amount_outlier", score(df[i].amount))>>
            ELSE <<>>])

\* the distinct values of a column in order of first appearance
RECURSIVE Distinct(_)
Distinct(s) ==
    IF s = <<>> THEN <<>>
    ELSE LET rest == Distinct(SubSeq(s, 1, Len(s) - 1))
             x    == s[Len(s)]
         IN  IF x \in Range(rest) THEN rest ELSE Append(rest, x)

\* a list of merchants by descending count (value_counts), ties in order
\* of first appearance
RECURSIVE ByCountDesc(_, _)
ByCountDesc(ms, df) ==
    IF ms = <<>> THEN <<>>
    ELSE LET cnt(m) == Cardinality({i \in 1..Len(df) : df[i].merchant = m})
             best == CHOOSE j \in 1..Len(ms) :
                        /\ \A k \in 1..Len(ms) : cnt(ms[k]) <= cnt(ms[j])
                        /\ \A k \in 1..(j - 1) : cnt(ms[k]) < cnt(ms[j])
         IN  <<ms[best]>> \o
             ByCountDesc(SubSeq(ms, 1, best - 1) \o SubSeq(ms, best + 1, Len(ms)), df)

\* _detect_frequency_anomalies: for a merchant with at least 10 transactions
\* on more than one calendar day, every transaction of a day whose count
\* exceeds mean + 2 * std of the daily counts (sample std, pandas), with
\* score min((count - mean) / max(std, 1), 1.0)
detect_frequency_anomalies(df) ==
    LET merchants == ByCountDesc(Distinct([i \in 1..Len(df) |-> df[i].merchant]), df)
        forMerchant(m) ==
            LET rows   == {i \in 1..Len(df) : df[i].merchant = m}
                days   == SortAsc(Distinct(SortAsc(
                              [k \in 1..Len(df) |-> df[k].day])))
                mdays  == SelectSeq(days, LAMBDA d : \E i \in rows : df[i].day = d)
                cnt(d) == Cardinality({i \in rows : df[i].day = d})
                nd     == Len(mdays)
                total  == Cardinality(rows)
                sumsq  == SumSeq([j \in 1..nd |-> cnt(mdays[j]) * cnt(mdays[j])])
                w      == nd * sumsq - total * total   \* nd(nd-1) * sample var
                \* count > mean + 2 * std
                exceeds(c) == /\ c * nd - total > 0
                              /\ (c * nd - total) * (c * nd - total) * (nd - 1)
                                     > 4 * nd * w
                \* min((count - mean) / max(std, 1), 1.0); beyond mean + 2 std
                \* the quotient is above 2 whenever std >= 1
                score(c) == IF w >= nd * (nd - 1) THEN ScoreOne
                            ELSE Min((ScoreOne * (c * nd - total)) \div nd, ScoreOne)
                forDay(d) ==
                    IF exceeds(cnt(d))
                    THEN Flatten([i \in 1..Len(df) |->
                            IF i \in rows /\ df[i].day = d
                            THEN <<Finding(df[i], "frequency_anomaly", score(cnt(d)))>>
                            ELSE <<>>])
                    ELSE <<>>
            IN  IF total >= 10 /\ nd > 1
                THEN Flatten([j \in 1..nd |-> forDay(mdays[j])])
                ELSE <<>>
    IN  Flatten([j \in 1..Len(merchants) |-> forMerchant(merchants[j])])

\* the upper hour bound of `if hour < 6 or hour > 23`
LateHour == 23

\* _detect_time_anomalies: an hour is typical when at least 5% of the rows
\* fall in it; a row at a non-typical hour before 6 or after LateHour is
\* flagged with the fixed score 0.7
detect_time_anomalies(df) ==
    LET n == Len(df)
        hourCount(h) == Cardinality({i \in 1..n : df[i].hour = h})
        typical(h) == hourCount(h) > 0 /\ 20 * hourCount(h) >= n
    IN  Flatten([i \in 1..n |->
            IF ~typical(df[i].hour) /\ (df[i].hour < 6 \/ df[i].hour > LateHour)
            THEN <<Finding(df[i], "time_anomaly", 70)>>
            ELSE <<>>])

\* _detect_merchant_anomalies: a merchant seen once with an amount above the
\* batch's 90th percentile, fixed score 0.8
detect_merchant_anomalies(df) ==
    LET n   == Len(df)
        q90 == Quantile20(SortAsc(Amounts(df)), 18)
        cnt(m) == Cardinality({i \in 1..n : df[i].merchant = m})
    IN  Flatten([i \in 1..n |->
            IF cnt(df[i].merchant) = 1 /\ 20 * df[i].amount > q90
            THEN <<Finding(df[i], "merchant_anomaly", 80)>>
            ELSE <<>>])

\* _detect_category_anomalies: inside a category other than 'Other' with at
\* least 3 rows and a nonzero sample std, z = |amount - mean| / std > 2.5 is
\* flagged with score min(z / 3, 1.0)
detect_category_anomalies(df) ==
    LET n == Len(df)
        forRow(r) ==
            LET rows == {i \in 1..n : df[i].category = r.category}
                m    == Cardinality(rows)
                col  == [i \in 1..n |-> IF i \in rows THEN df[i].amount ELSE 0]
                s    == SumSeq(col)
                w    == m * SumSeq([i \in 1..n |-> col[i] * col[i]]) - s * s
                \* z^2 = dev / (m * w) with
                dev  == (r.amount * m - s) * (r.amount * m - s) * (m - 1)
            IN  IF r.category # "Other" /\ m >= 3 /\ w > 0
                    /\ 4 * dev > 25 * m * w
                THEN <<Finding(r, "category_anomaly", CappedRoot(dev, 9 * m * w))>>
                ELSE <<>>
    IN  Flatten([i \in 1..n |-> forRow(df[i])])

\* df.sort_values('date'): the rows by ascending date (rows of equal date in
\* batch order)
RECURSIVE SortByDate(_)
SortByDate(df) ==
    IF df = <<>> THEN <<>>
    ELSE LET first == CHOOSE j \in 1..Len(df) :
                         /\ \A k \in 1..Len(df) : df[j].date <= df[k].date
                         /\ \A k \in 1..(j - 1) : df[k].date > df[j].date
         IN  <<df[first]>> \o
             SortByDate(SubSeq(df, 1, first - 1) \o SubSeq(df, first + 1, Len(df)))

\* _detect_velocity_anomalies: the later of two rows adjacent in time and at
\* most 5 minutes apart whose amounts together exceed the batch's 95th
\* percentile, fixed score 0.9
detect_velocity_anomalies(df) ==
    LET sorted == SortByDate(df)
        q95    == Quantile20(SortAsc(Amounts(df)), 19)
    IN  Flatten([j \in 1..Len(sorted) |->
            IF /\ j > 1
               /\ sorted[j].date - sorted[j - 1].date <= 5
               /\ 20 * (sorted[j].amount + sorted[j - 1].amount) > q95
            THEN <<Finding(sorted[j], "velocity_anomaly", 90)>>
            ELSE <<>>])

\* amount == round(amount)
IsRound(a) == a % AmountScale = 0

\* _detect_pattern_anomalies: when more than 80% of the amounts are whole, a
\* non-whole amount above the 80th percentile, fixed score 0.6
detect_pattern_anomalies(df) ==
    LET n   == Len(df)
        nr  == Cardinality({i \in 1..n : IsRound(df[i].amount)})
        q80 == Quantile20(SortAsc(Amounts(df)), 16)
    IN  IF 5 * nr > 4 * n
        THEN Flatten([i \in 1..n |->
                IF ~IsRound(df[i].amount) /\ 20 * df[i].amount > q80
                THEN <<Finding(df[i], "amount_pattern", 60)>>
                ELSE <<>>])
        ELSE <<>>

\* IsolationForest.score_samples: the opposite of the paper's anomaly score,
\* a value of [-1, 0); in hundredths
ScoreSamples == {-100, -45}

\* the rows the outcome of the unsupervised stage may mark as outliers
\* (fit_predict(...) == -1): any of the last MaxMlRows rows of the batch
MaxMlRows == 2

\* what scaler.fit_transform / isolation_forest.fit_predict / score_samples
\* can do on a batch: raise (failed), or predict a set of outlier rows with a
\* score for each
MlOutcomes(df) ==
    LET n    == Len(df)
        rows == {i \in 1..n : i > n - MaxMlRows}
    IN  {[failed |-> TRUE, predicted |-> {}, score_samples |-> <<>>]} \cup
        UNION {{[failed |-> FALSE, predicted |-> P, score_samples |-> f] :
                   f \in [P -> ScoreSamples]} : P \in SUBSET rows}

\* the unsupervised stage was not run, or flagged nothing
NoMl == [failed |-> FALSE, predicted |-> {}, score_samples |-> <<>>]

\* an unsupervised stage without the try/except: a failure of the fit leaves
\* _detect_ml_anomalies as an exception
ml_raises_unhandled(ml) == ml.failed

\* _detect_ml_anomalies, `except Exception as e: print(...)`: whether a
\* failure of the fit leaves the method as an exception
ml_raises(ml) == FALSE

\* _detect_ml_anomalies: every row predicted -1 with score |score_samples|;
\* an exception anywhere in the fit leaves the list empty
detect_ml_anomalies(df, ml) ==
    IF ml.failed THEN <<>>
    ELSE Flatten([i \in 1..Len(df) |->
            IF i \in ml.predicted
            THEN <<Finding(df[i], "ml_anomaly", Abs(ml.score_samples[i]))>>
            ELSE <<>>])

\* sorted(anomalies, key=lambda x: x['score'], reverse=True): stable, so
\* findings of equal score keep their pooled order
RECURSIVE SortByScoreDesc(_)
SortByScoreDesc(s) ==
    IF s = <<>> THEN <<>>
    ELSE LET first == CHOOSE j \in 1..Len(s) :
                         /\ \A k \in 1..Len(s) : s[k].score <= s[j].score
                         /\ \A k \in 1..(j - 1) : s[k].score < s[j].score
         IN  <<s[first]>> \o
             SortByScoreDesc(SubSeq(s, 1, first - 1) \o SubSeq(s, first + 1, Len(s)))

RECURSIVE KeepFirstPerTransaction(_, _)
\* the loop of _deduplicate_anomalies over the sorted findings
KeepFirstPerTransaction(s, seen_transactions) ==
    IF s = <<>> THEN <<>>
    ELSE IF Head(s).transaction_id \in seen_transactions
         THEN KeepFirstPerTransaction(Tail(s), seen_transactions)
         ELSE <<Head(s)>> \o
              KeepFirstPerTransaction(Tail(s),
                                      seen_transactions \cup {Head(s).transaction_id})

\* the merge without the sort: the first finding per transaction, whatever its score
deduplicate_unsorted(found) == KeepFirstPerTransaction(found, {})

\* _deduplicate_anomalies
deduplicate_anomalies(found) == KeepFirstPerTransaction(SortByScoreDesc(found), {})

\* the seven statistical detectors in the order detect_anomalies calls them
StatisticalDetectors ==
    <<"amount", "frequency", "time", "merchant", "category", "velocity", "pattern">>

RunDetector(name, df) ==
    CASE name = "amount"    -> detect_amount_anomalies(df)
      [] name = "frequency" -> detect_frequency_anomalies(df)
      [] name = "time"      -> detect_time_anomalies(df)
      [] name = "merchant"  -> detect_merchant_anomalies(df)
      [] name = "category"  -> detect_category_anomalies(df)
      [] name = "velocity"  -> detect_velocity_anomalies(df)
      [] name = "pattern"   -> detect_pattern_anomalies(df)

\* the findings of the seven statistical detectors, pooled in call order
StatisticalFindings(df) ==
    Flatten([j \in 1..Len(StatisticalDetectors) |->
                RunDetector(StatisticalDetectors[j], df)])

(* The batches.  A batch is a customer's regular purchases, one a day at    *)
(* noon, followed by a few purchases out of the ordinary.                   *)

\* the most regular purchases in a batch
MaxBase == 20

\* the most out-of-the-ordinary purchases in a batch
MaxExtras == 2

IsRegular(t) == Get(t, "description", "") = "regular"

NumRegular(txs) == Cardinality({i \in 1..Len(txs) : IsRegular(txs[i])})

NumExtras(txs) == Len(txs) - NumRegular(txs)

RegularPurchase(b) ==
    [amount |-> 4, merchant |-> "GROCER", category |-> "Food & Dining",
     date |-> b * MinutesPerDay + 720, description |-> "regular"]

\* b regular purchases and e other purchases are in the batch so far
ExtraPurchases(b, e) ==
    { \* a large first purchase at a new merchant, mid-morning
      [amount |-> 20, merchant |-> "NEWSHOP", category |-> "Shopping",
       date |-> b * MinutesPerDay + 600 + e, description |-> "big"],
      \* an ordinary purchase at 03:00
      [amount |-> 4, merchant |-> "GROCER", category |-> "Food & Dining",
       date |-> b * MinutesPerDay + 180 + e, description |-> "night"],
      \* an ordinary purchase at 23:30
      [amount |-> 4, merchant |-> "GROCER", category |-> "Food & Dining",
       date |-> b * MinutesPerDay + 1410 + e, description |-> "late"],
      \* a large purchase three minutes after the last regular one
      [amount |-> 20, merchant |-> "GROCER", category |-> "Food & Dining",
       date |-> Max(b - 1, 0) * MinutesPerDay + 723 + e, description |-> "burst"],
      \* a $10.50 purchase with no category, early afternoon
      [amount |-> 21, merchant |-> "GROCER",
       date |-> b * MinutesPerDay + 840 + e, description |-> "odd"],
      \* a $3 purchase carrying the explicit id 0
      [id |-> 0, amount |-> 6, merchant |-> "KIOSK", category |-> "Shopping",
       date |-> b * MinutesPerDay + 900 + e, description |-> "kiosk"] }

AnomalyInit ==
    /\ transactions = <<>>
    /\ pooled = <<>>
    /\ anomalies = <<>>
    /\ ran = {}
    /\ ml_run = NoMl
    /\ ad_pc = "idle"

\* the caller assembles the next batch: one more regular purchase
AddRegular ==
    /\ NumExtras(transactions) = 0
    /\ NumRegular(transactions) < MaxBase
    /\ transactions' = Append(transactions, RegularPurchase(Len(transactions)))
    /\ pooled' = <<>>
    /\ anomalies' = <<>>
    /\ ran' = {}
    /\ ml_run' = NoMl
    /\ ad_pc' = "idle"
    /\ UNCHANGED not_ad_vars

\* the caller assembles the next batch: one more purchase out of the ordinary
AddExtra ==
    /\ NumExtras(transactions) < MaxExtras
    /\ \E t \in ExtraPurchases(NumRegular(transactions), NumExtras(transactions)) :
           transactions' = Append(transactions, t)
    /\ pooled' = <<>>
    /\ anomalies' = <<>>
    /\ ran' = {}
    /\ ml_run' = NoMl
    /\ ad_pc' = "idle"
    /\ UNCHANGED not_ad_vars

\* a gate that lets every batch of size MinBatch - 1 through
TooSmallOffByOne(txs) == Len(txs) < MinBatch - 1

\* detect_anomalies: `if len(transactions) < 10: return []`
TooSmall(txs) == Len(txs) < MinBatch

\* detect_anomalies on a batch of fewer than MinBatch transactions
DetectAnomaliesSmall ==
    /\ ad_pc = "idle"
    /\ TooSmall(transactions)
    /\ pooled' = <<>>
    /\ anomalies' = <<>>
    /\ ran' = {}
    /\ ml_run' = NoMl
    /\ ad_pc' = "returned"
    /\ UNCHANGED transactions
    /\ UNCHANGED not_ad_vars

\* detect_anomalies on a batch the unsupervised stage is skipped for
DetectAnomaliesStatistical ==
    /\ ad_pc = "idle"
    /\ ~TooSmall(transactions)
    /\ ~(Len(transactions) > MlMinBatch)
    /\ LET df == prepare_dataframe(transactions)
           found == StatisticalFindings(df)
       IN  /\ pooled' = found
           /\ anomalies' = deduplicate_anomalies(found)
    /\ ran' = Range(StatisticalDetectors)
    /\ ml_run' = NoMl
    /\ ad_pc' = "returned"
    /\ UNCHANGED transactions
    /\ UNCHANGED not_ad_vars

\* detect_anomalies on a batch of more than MlMinBatch transactions
DetectAnomaliesWithMl ==
    /\ ad_pc = "idle"
    /\ ~TooSmall(transactions)
    /\ Len(transactions) > MlMinBatch
    /\ LET df   == prepare_dataframe(transactions)
           stat == StatisticalFindings(df)
       IN  \E ml \in MlOutcomes(df) :
              /\ ml_run' = ml
              /\ IF ml_raises(ml)
                 THEN /\ pooled' = stat
                      /\ anomalies' = <<>>
                      /\ ad_pc' = "raised"
                 ELSE /\ pooled' = stat \o detect_ml_anomalies(df, ml)
                      /\ anomalies' = deduplicate_anomalies(pooled')
                      /\ ad_pc' = "returned"
    /\ ran' = Range(StatisticalDetectors) \cup {"ml"}
    /\ UNCHANGED transactions
    /\ UNCHANGED not_ad_vars

AnomalyNext ==
    \/ AddRegular
    \/ AddExtra
    \/ DetectAnomaliesSmall
    \/ DetectAnomaliesStatistical
    \/ DetectAnomaliesWithMl

-----------------------------------------------------------------------------
(* detect_anomalies on batches of about ten amounts                         *)

\* the amounts of nine purchases, in units of 1/AmountScale dollar
AmountProfiles ==
    { <<4, 4, 4, 4, 4, 4, 4, 4, 4>>,
      <<2, 3, 4, 4, 5, 5, 6, 6, 7>>,
      <<10, 8, 12, 10, 9, 11, 10, 12, 8>> }

\* the amounts of the purchases that follow
LaterAmounts == {0, 4, 9, 12, 13, 14, 19, 20, 21, 60}

\* the most purchases in such a batch
MaxAmountBatch == 11

\* a purchase on the day after the last, at noon
Purchase(day, amount, merchant) ==
    [amount |-> amount, merchant |-> merchant, category |-> "Food & Dining",
     date |-> day * MinutesPerDay + 720, description |-> "purchase"]

AmountsInit ==
    /\ \E profile \in AmountProfiles :
           transactions = <<>> \o [i \in 1..Len(profile) |->
                                      Purchase(i - 1, profile[i], "GROCER")]
    /\ pooled = <<>>
    /\ anomalies = <<>>
    /\ ran = {}
    /\ ml_run = NoMl
    /\ ad_pc = "idle"

\* the caller adds one more purchase to the batch
AddPurchase ==
    /\ Len(transactions) < MaxAmountBatch
    /\ \E amount \in LaterAmounts, merchant \in {"GROCER", "NEWSHOP"} :
           transactions' = Append(transactions,
                                  Purchase(Len(transactions), amount, merchant))
    /\ pooled' = <<>>
    /\ anomalies' = <<>>
    /\ ran' = {}
    /\ ml_run' = NoMl
    /\ ad_pc' = "idle"
    /\ UNCHANGED not_ad_vars

AmountsNext ==
    \/ AddPurchase
    \/ DetectAnomaliesSmall
    \/ DetectAnomaliesStatistical

-----------------------------------------------------------------------------
(* TransactionCategorizer (services/categorizer.py)                         *)
(*                                                                          *)
(* A Python str is a sequence of one-character strings, so that the         *)
(* substring tests of the keyword and pattern stages are computed.          *)
(* A confidence is an exact fraction [num, den].                            *)

Frac(n, d) == [num |-> n, den |-> d]

\* a > b for fractions with positive denominators
Gt(a, b) == a.num * b.den > b.num * a.den

FracMin(a, b) == IF Gt(a, b) THEN b ELSE a

Uppercase == <<"A", "B", "C", "D", "E", "F", "G", "H", "I", "J", "K", "L", "M",
              "N", "O", "P", "Q", "R", "S", "T", "U", "V", "W", "X", "Y", "Z">>

Lowercase == <<"a", "b", "c", "d", "e", "f", "g", "h", "i", "j", "k", "l", "m",
              "n", "o", "p", "q", "r", "s", "t", "u", "v", "w", "x", "y", "z">>

\* str.lower() of one character
LowerChar(c) ==
    IF \E i \in 1..Len(Uppercase) : Uppercase[i] = c
    THEN Lowercase[CHOOSE i \in 1..Len(Uppercase) : Uppercase[i] = c]
    ELSE c

\* str.lower()
Lower(s) == [i \in 1..Len(s) |-> LowerChar(s[i])]

\* `k in t` for two str
IsSubstring(k, t) ==
    \E i \in 1..(Len(t) - Len(k) + 1) : \A j \in 1..Len(k) : t[i + j - 1] = k[j]

RECURSIVE JoinWithSpace(_)
\* ' '.join(parts)
JoinWithSpace(parts) ==
    IF parts = <<>> THEN <<>>
    ELSE IF Len(parts) = 1 THEN parts[1]
    ELSE parts[1] \o <<" ">> \o JoinWithSpace(Tail(parts))

RECURSIVE SplitWords(_, _)
\* the space-separated words of a str (cur is the word being read)
SplitWords(s, cur) ==
    IF s = <<>> THEN (IF cur = <<>> THEN <<>> ELSE <<cur>>)
    ELSE IF Head(s) = " "
         THEN (IF cur = <<>> THEN <<>> ELSE <<cur>>) \o SplitWords(Tail(s), <<>>)
         ELSE SplitWords(Tail(s), Append(cur, Head(s)))

Words(s) == SplitWords(s, <<>>)

\* self.categories as __init__ builds it: the category table in insertion
\* order; a pattern r'.*x.*' is carried as its literal x
InitialCategories ==
    << [name |-> "Food & Dining",
       keywords |-> <<
          <<"r","e","s","t","a","u","r","a","n","t">>, <<"f","o","o","d">>,
          <<"d","i","n","i","n","g">>, <<"c","a","f","e">>, <<"p","i","z","z","a">>,
          <<"b","u","r","g","e","r">>, <<"s","t","a","r","b","u","c","k","s">>,
          <<"m","c","d","o","n","a","l","d","s">>, <<"s","u","b","w","a","y">>,
          <<"d","e","l","i","v","e","r","y">>, <<"t","a","k","e","o","u","t">>,
          <<"b","a","r">>, <<"p","u","b">>, <<"b","a","k","e","r","y">>,
          <<"g","r","o","c","e","r","y">>, <<"s","u","p","e","r","m","a","r","k","e","t">>,
          <<"m","a","r","k","e","t">>, <<"w","h","o","l","e"," ","f","o","o","d","s">>,
          <<"s","a","f","e","w","a","y">>, <<"k","r","o","g","e","r">> >>,
       patterns |-> <<
          <<"r","e","s","t","a","u","r","a","n","t">>, <<"f","o","o","d">>,
          <<"c","a","f","e">>, <<"p","i","z","z","a">> >>,
       subcategories |-> <<"Restaurants", "Fast Food", "Groceries", "Coffee Shops", "Bars & Pubs">>],
      [name |-> "Transportation",
       keywords |-> <<
          <<"g","a","s">>, <<"f","u","e","l">>, <<"s","h","e","l","l">>,
          <<"c","h","e","v","r","o","n">>, <<"b","p">>, <<"e","x","x","o","n">>,
          <<"m","o","b","i","l">>, <<"u","b","e","r">>, <<"l","y","f","t">>,
          <<"t","a","x","i">>, <<"m","e","t","r","o">>, <<"b","u","s">>,
          <<"t","r","a","i","n">>, <<"p","a","r","k","i","n","g">>, <<"t","o","l","l">>,
          <<"c","a","r">>, <<"a","u","t","o">>, <<"r","e","p","a","i","r">>,
          <<"m","a","i","n","t","e","n","a","n","c","e">> >>,
       patterns |-> <<
          <<"g","a","s">>, <<"f","u","e","l">>, <<"u","b","e","r">>, <<"l","y","f","t">> >>,
       subcategories |-> <<"Gas & Fuel", "Ride Sharing", "Public Transit", "Parking", "Auto Repair">>],
      [name |-> "Shopping",
       keywords |-> <<
          <<"a","m","a","z","o","n">>, <<"w","a","l","m","a","r","t">>,
          <<"t","a","r","g","e","t">>, <<"c","o","s","t","c","o">>,
          <<"b","e","s","t"," ","b","u","y">>, <<"h","o","m","e"," ","d","e","p","o","t">>,
          <<"l","o","w","e","s">>, <<"m","a","c","y","s">>,
          <<"n","o","r","d","s","t","r","o","m">>, <<"c","l","o","t","h","i","n","g">>,
          <<"s","h","o","e","s">>, <<"e","l","e","c","t","r","o","n","i","c","s">>,
          <<"b","o","o","k","s">>, <<"t","o","y","s">>, <<"h","o","m","e">>,
          <<"g","a","r","d","e","n">> >>,
       patterns |-> <<
          <<"a","m","a","z","o","n">>, <<"w","a","l","m","a","r","t">>,
          <<"t","a","r","g","e","t">> >>,
       subcategories |-> <<"Online Shopping", "Department Stores", "Electronics", "Clothing", "Home & Garden">>],
      [name |-> "Entertainment",
       keywords |-> <<
          <<"m","o","v","i","e">>, <<"t","h","e","a","t","e","r">>,
          <<"c","i","n","e","m","a">>, <<"n","e","t","f","l","i","x">>,
          <<"s","p","o","t","i","f","y">>, <<"a","p","p","l","e"," ","m","u","s","i","c">>,
          <<"y","o","u","t","u","b","e">>, <<"g","a","m","e">>, <<"s","t","e","a","m">>,
          <<"p","l","a","y","s","t","a","t","i","o","n">>, <<"x","b","o","x">>,
          <<"c","o","n","c","e","r","t">>, <<"s","h","o","w">>, <<"t","i","c","k","e","t">>,
          <<"e","v","e","n","t">> >>,
       patterns |-> <<
          <<"m","o","v","i","e">>, <<"t","h","e","a","t","e","r">>,
          <<"n","e","t","f","l","i","x">>, <<"s","p","o","t","i","f","y">> >>,
       subcategories |-> <<"Movies", "Streaming Services", "Gaming", "Concerts", "Events">>],
      [name |-> "Health & Fitness",
       keywords |-> <<
          <<"p","h","a","r","m","a","c","y">>, <<"c","v","s">>,
          <<"w","a","l","g","r","e","e","n","s">>, <<"h","o","s","p","i","t","a","l">>,
          <<"d","o","c","t","o","r">>, <<"c","l","i","n","i","c">>,
          <<"m","e","d","i","c","a","l">>, <<"g","y","m">>, <<"f","i","t","n","e","s","s">>,
          <<"y","o","g","a">>, <<"h","e","a","l","t","h">>, <<"d","e","n","t","a","l">>,
          <<"v","i","s","i","o","n">>, <<"p","r","e","s","c","r","i","p","t","i","o","n">> >>,
       patterns |-> <<
          <<"p","h","a","r","m","a","c","y">>, <<"m","e","d","i","c","a","l">>,
          <<"g","y","m">>, <<"f","i","t","n","e","s","s">> >>,
       subcategories |-> <<"Pharmacy", "Medical", "Fitness", "Dental", "Vision">>],
      [name |-> "Bills & Utilities",
       keywords |-> <<
          <<"e","l","e","c","t","r","i","c">>, <<"e","l","e","c","t","r","i","c","i","t","y">>,
          <<"w","a","t","e","r">>, <<"g","a","s">>, <<"u","t","i","l","i","t","y">>,
          <<"p","h","o","n","e">>, <<"i","n","t","e","r","n","e","t">>,
          <<"c","a","b","l","e">>, <<"v","e","r","i","z","o","n">>, <<"a","t","t">>,
          <<"t","m","o","b","i","l","e">>, <<"c","o","m","c","a","s","t">>,
          <<"x","f","i","n","i","t","y">>, <<"b","i","l","l">>,
          <<"p","a","y","m","e","n","t">> >>,
       patterns |-> <<
          <<"e","l","e","c","t","r","i","c">>, <<"u","t","i","l","i","t","y">>,
          <<"v","e","r","i","z","o","n">>, <<"c","o","m","c","a","s","t">> >>,
       subcategories |-> <<"Electricity", "Water", "Gas", "Internet", "Phone">>],
      [name |-> "Travel",
       keywords |-> <<
          <<"h","o","t","e","l">>, <<"a","i","r","l","i","n","e">>,
          <<"f","l","i","g","h","t">>, <<"a","i","r","p","o","r","t">>,
          <<"t","r","a","v","e","l">>, <<"b","o","o","k","i","n","g">>,
          <<"e","x","p","e","d","i","a">>, <<"a","i","r","b","n","b">>,
          <<"r","e","n","t","a","l">>, <<"c","a","r"," ","r","e","n","t","a","l">>,
          <<"h","e","r","t","z">>, <<"e","n","t","e","r","p","r","i","s","e">>,
          <<"v","a","c","a","t","i","o","n">> >>,
       patterns |-> <<
          <<"h","o","t","e","l">>, <<"a","i","r","l","i","n","e">>,
          <<"f","l","i","g","h","t">>, <<"a","i","r","b","n","b">> >>,
       subcategories |-> <<"Hotels", "Flights", "Car Rental", "Vacation Rentals", "Travel Booking">>],
      [name |-> "Finance",
       keywords |-> <<
          <<"b","a","n","k">>, <<"a","t","m">>, <<"f","e","e">>,
          <<"i","n","t","e","r","e","s","t">>, <<"t","r","a","n","s","f","e","r">>,
          <<"p","a","y","m","e","n","t">>, <<"c","r","e","d","i","t">>, <<"l","o","a","n">>,
          <<"m","o","r","t","g","a","g","e">>, <<"i","n","s","u","r","a","n","c","e">>,
          <<"i","n","v","e","s","t","m","e","n","t">>, <<"f","i","n","a","n","c","i","a","l">> >>,
       patterns |-> <<
          <<"b","a","n","k">>, <<"a","t","m">>, <<"f","e","e">>,
          <<"i","n","t","e","r","e","s","t">> >>,
       subcategories |-> <<"Banking Fees", "ATM", "Insurance", "Loans", "Investments">>],
      [name |-> "Education",
       keywords |-> <<
          <<"s","c","h","o","o","l">>, <<"u","n","i","v","e","r","s","i","t","y">>,
          <<"c","o","l","l","e","g","e">>, <<"t","u","i","t","i","o","n">>,
          <<"e","d","u","c","a","t","i","o","n">>, <<"b","o","o","k","s">>,
          <<"s","u","p","p","l","i","e","s">>, <<"c","o","u","r","s","e">>,
          <<"c","l","a","s","s">>, <<"l","e","a","r","n","i","n","g">>,
          <<"s","t","u","d","e","n","t">> >>,
       patterns |-> <<
          <<"s","c","h","o","o","l">>, <<"u","n","i","v","e","r","s","i","t","y">>,
          <<"e","d","u","c","a","t","i","o","n">> >>,
       subcategories |-> <<"Tuition", "Books", "Supplies", "Courses", "Student Services">>],
      [name |-> "Personal Care",
       keywords |-> <<
          <<"s","a","l","o","n">>, <<"s","p","a">>, <<"b","e","a","u","t","y">>,
          <<"c","o","s","m","e","t","i","c","s">>, <<"h","a","i","r">>, <<"n","a","i","l">>,
          <<"m","a","s","s","a","g","e">>, <<"s","k","i","n","c","a","r","e">>,
          <<"p","e","r","s","o","n","a","l">>, <<"h","y","g","i","e","n","e">>,
          <<"g","r","o","o","m","i","n","g">> >>,
       patterns |-> <<
          <<"s","a","l","o","n">>, <<"s","p","a">>, <<"b","e","a","u","t","y">> >>,
       subcategories |-> <<"Hair Care", "Skincare", "Spa Services", "Cosmetics", "Personal Hygiene">>],
      [name |-> "Other",
       keywords |-> <<
           >>,
       patterns |-> <<
           >>,
       subcategories |-> <<"Miscellaneous", "Unknown", "Other">>] >>

\* _extract_text_for_analysis
extract_text_for_analysis(transaction) ==
    LET part(key) == IF key \in DOMAIN transaction THEN <<transaction[key]>> ELSE <<>>
    IN  <<>> \o Lower(JoinWithSpace(part("merchant") \o part("description")
                                     \o part("raw_text")))

NoMatch == [category |-> "Other", subcategory |-> "Miscellaneous",
            confidence |-> Frac(0, 1)]

FirstSubcategory(data) ==
    IF data.subcategories # <<>> THEN data.subcategories[1] ELSE "General"

RECURSIVE KeywordScan(_, _, _, _)
\* the loop of _keyword_matching from category i on
KeywordScan(text, cats, i, best_match) ==
    IF i > Len(cats) THEN best_match
    ELSE LET keywords == cats[i].keywords
             matches == Cardinality({k \in 1..Len(keywords) :
                                        IsSubstring(keywords[k], text)})
             confidence == FracMin(Frac(matches, Max(Len(keywords), 1)), Frac(1, 1))
         IN  IF matches > 0 /\ Gt(confidence, best_match.confidence)
             THEN KeywordScan(text, cats, i + 1,
                      [category |-> cats[i].name,
                       subcategory |-> FirstSubcategory(cats[i]),
                       confidence |-> confidence])
             ELSE KeywordScan(text, cats, i + 1, best_match)

\* a keyword stage that keeps the last category with a matching keyword
\* instead of the one with the largest share
keyword_matching_last(text, cats) ==
    LET matches(i) == Cardinality({k \in 1..Len(cats[i].keywords) :
                                      IsSubstring(cats[i].keywords[k], text)})
        hits == {i \in 1..Len(cats) : matches(i) > 0}
    IN  IF hits = {} THEN NoMatch
        ELSE LET i == CHOOSE h \in hits : \A g \in hits : g <= h
             IN  [category |-> cats[i].name,
                  subcategory |-> FirstSubcategory(cats[i]),
                  confidence |-> FracMin(Frac(matches(i), Len(cats[i].keywords)),
                                         Frac(1, 1))]

RECURSIVE KeywordScanTies(_, _, _, _)
\* the loop of a keyword stage that lets a later category of equal share
\* replace the best match
KeywordScanTies(text, cats, i, best_match) ==
    IF i > Len(cats) THEN best_match
    ELSE LET keywords == cats[i].keywords
             matches == Cardinality({k \in 1..Len(keywords) :
                                        IsSubstring(keywords[k], text)})
             confidence == FracMin(Frac(matches, Max(Len(keywords), 1)), Frac(1, 1))
         IN  IF matches > 0 /\ ~Gt(best_match.confidence, confidence)
             THEN KeywordScanTies(text, cats, i + 1,
                      [category |-> cats[i].name,
                       subcategory |-> FirstSubcategory(cats[i]),
                       confidence |-> confidence])
             ELSE KeywordScanTies(text, cats, i + 1, best_match)

keyword_matching_ties(text, cats) == KeywordScanTies(text, cats, 1, NoMatch)

\* _keyword_matching
keyword_matching(text, cats) == KeywordScan(text, cats, 1, NoMatch)

\* re.search(pattern, text, re.IGNORECASE) for a pattern r'.*x.*' or a literal x
PatternSearch(pattern, text) == IsSubstring(Lower(pattern), text)

\* a pattern stage that lets a later category override an earlier one
pattern_matching_last(text, cats) ==
    LET hits == {i \in 1..Len(cats) :
                    \E p \in 1..Len(cats[i].patterns) :
                        PatternSearch(cats[i].patterns[p], text)}
    IN  IF hits = {} THEN NoMatch
        ELSE LET i == CHOOSE h \in hits : \A g \in hits : h >= g
             IN  [category |-> cats[i].name,
                  subcategory |-> FirstSubcategory(cats[i]),
                  confidence |-> Frac(85, 100)]

\* _pattern_matching: the first category, in table order, one of whose
\* patterns matches, always with confidence 0.85
pattern_matching(text, cats) ==
    LET hits == {i \in 1..Len(cats) :
                    \E p \in 1..Len(cats[i].patterns) :
                        PatternSearch(cats[i].patterns[p], text)}
    IN  IF hits = {} THEN NoMatch
        ELSE LET i == CHOOSE h \in hits : \A g \in hits : h <= g
             IN  [category |-> cats[i].name,
                  subcategory |-> FirstSubcategory(cats[i]),
                  confidence |-> Frac(85, 100)]

RECURSIVE NlpScan(_, _, _)
\* the loop of _nlp_matching from category i on
NlpScan(entities, cats, i) ==
    IF i > Len(cats) THEN NoMatch
    ELSE LET keywords == cats[i].keywords
             entity_matches ==
                 Cardinality({e \in 1..Len(entities) :
                     \E k \in 1..Len(keywords) : IsSubstring(keywords[k], entities[e])})
             confidence == FracMin(Frac(entity_matches, Max(Len(entities), 1)),
                                   Frac(9, 10))
         IN  IF entity_matches > 0 /\ Gt(confidence, Frac(4, 10))
             THEN [category |-> cats[i].name,
                   subcategory |-> FirstSubcategory(cats[i]),
                   confidence |-> confidence]
             ELSE NlpScan(entities, cats, i + 1)

\* _nlp_matching on the entities self.nlp(text) found
nlp_matching(entities, cats) == NlpScan(entities, cats, 1)

\* what self.nlp(text).ents can be: no entity, one word of the text, or all
\* its words, each lower-cased; or self.nlp(text) raises
NlpOutcomes(text) ==
    LET words == Words(text)
    IN  {[raised |-> TRUE, entities |-> <<>>]} \cup
        {[raised |-> FALSE, entities |-> e] :
            e \in {<<>>, words} \cup {<<words[w]>> : w \in 1..Len(words)}}

\* cosine similarities the text-similarity stage may compute, as fractions
Similarities == {Frac(0, 100), Frac(35, 100), Frac(60, 100), Frac(100, 100)}

\* _ml_matching.  TfidfVectorizer and cosine_similarity are not computed: the
\* best category is any category other than 'Other' that shares a word with
\* the text (a similarity above 0 needs a shared term), its similarity any of
\* Similarities; below the 0.3 gate, or on an exception, the stage returns
\* ('Other', 'Miscellaneous', 0.0)
ml_matching(text, cats) ==
    LET words == Range(Words(text))
        kwWords(i) == UNION {Range(Words(cats[i].keywords[k])) :
                                k \in 1..Len(cats[i].keywords)}
        sharing == {i \in 1..Len(cats) :
                       cats[i].name # "Other" /\ kwWords(i) \cap words # {}}
    IN  {NoMatch} \cup
        {[category |-> cats[i].name,
          subcategory |-> cats[i].subcategories[1],
          confidence |-> s] :
            i \in sharing, s \in {x \in Similarities : Gt(x, Frac(3, 10))}}

\* a stage the cascade did not reach
NotRun == [category |-> "-", subcategory |-> "-", confidence |-> Frac(0, 1)]

\* a last line of the cascade that returns the empty match
FallbackZero == [category |-> "Other", subcategory |-> "Miscellaneous",
                 confidence |-> Frac(0, 1)]

\* categorize_single_transaction, last line: return 'Other', 'Miscellaneous', 0.3
Fallback == [category |-> "Other", subcategory |-> "Miscellaneous",
             confidence |-> Frac(3, 10)]

Outcome(result, kw, pm, nlpm, mlm) ==
    [raised |-> FALSE, result |-> result,
     stages |-> [keyword |-> kw, pattern |-> pm, nlp |-> nlpm, ml |-> mlm]]

Raised(kw, pm) ==
    [raised |-> TRUE, result |-> NotRun,
     stages |-> [keyword |-> kw, pattern |-> pm, nlp |-> NotRun, ml |-> NotRun]]

\* a cascade that, when no stage clears its threshold, returns the most
\* confident stage result seen instead of the fixed fallback
AfterNlpBestSoFar(text, cats, kw, pm, nlpm) ==
    LET Best(a, b) == IF Gt(b.confidence, a.confidence) THEN b ELSE a
    IN  IF nlpm # NotRun /\ Gt(nlpm.confidence, Frac(6, 10))
        THEN {Outcome(nlpm, kw, pm, nlpm, NotRun)}
        ELSE {IF Gt(mlm.confidence, Frac(5, 10))
              THEN Outcome(mlm, kw, pm, nlpm, mlm)
              ELSE Outcome(Best(Best(Best(kw, pm), nlpm), mlm), kw, pm, nlpm, mlm) :
                  mlm \in ml_matching(text, cats)}

\* the cascade of categorize_single_transaction after the pattern stage,
\* given what the NLP stage produced (NotRun when self.nlp is None)
AfterNlp(text, cats, kw, pm, nlpm) ==
    IF nlpm # NotRun /\ Gt(nlpm.confidence, Frac(6, 10))
    THEN {Outcome(nlpm, kw, pm, nlpm, NotRun)}
    ELSE {IF Gt(mlm.confidence, Frac(5, 10))
          THEN Outcome(mlm, kw, pm, nlpm, mlm)
          ELSE Outcome(Fallback, kw, pm, nlpm, mlm) : mlm \in ml_matching(text, cats)}

\* categorize_single_transaction: every outcome the call can have, with what
\* each stage it ran returned
categorize_single_transaction(transaction, cats, nlp_loaded) ==
    LET text == extract_text_for_analysis(transaction)
        kw   == keyword_matching(text, cats)
        pm   == pattern_matching(text, cats)
    IN  IF Gt(kw.confidence, Frac(8, 10))
        THEN {Outcome(kw, kw, NotRun, NotRun, NotRun)}
        ELSE IF Gt(pm.confidence, Frac(7, 10))
        THEN {Outcome(pm, kw, pm, NotRun, NotRun)}
        ELSE IF nlp_loaded
        THEN UNION {IF o.raised THEN {Raised(kw, pm)}
                    ELSE AfterNlp(text, cats, kw, pm, nlp_matching(o.entities, cats)) :
                        o \in NlpOutcomes(text)}
        ELSE AfterNlp(text, cats, kw, pm, NotRun)

\* the transactions handed to the categorizer: a merchant that matches a
\* Food & Dining pattern; a text with 9 of the 11 Personal Care keywords; a
\* merchant with two Food & Dining keywords and no pattern; a merchant no
\* keyword or pattern matches; a text with 8 of the 11 Education keywords and
\* no pattern
TransactionPool ==
    { [merchant |-> <<"P","i","z","z","a"," ","H","u","t"," ","R","e","s","t","a","u","r",
                    "a","n","t"," ","D","i","n","i","n","g">>],
      [merchant |-> <<"G","l","o","w">>,
       raw_text |-> <<"s","a","l","o","n"," ","s","p","a"," ","b","e","a","u","t","y"," ",
                    "c","o","s","m","e","t","i","c","s"," ","h","a","i","r"," ","n","a",
                    "i","l"," ","m","a","s","s","a","g","e"," ","s","k","i","n","c","a",
                    "r","e"," ","p","e","r","s","o","n","a","l">>],
      [merchant |-> <<"S","t","a","r","b","u","c","k","s">>, description |-> <<"c","o","f","f","e","e">>],
      [merchant |-> <<"X","Y","Z"," ","C","o","r","p">>],
      [merchant |-> <<"S","t","a","r","b","u","c","k","s">>],
      [merchant |-> <<"C","a","m","p","u","s">>,
       raw_text |-> <<"c","o","l","l","e","g","e"," ","t","u","i","t","i","o","n"," ","b",
                    "o","o","k","s"," ","s","u","p","p","l","i","e","s"," ","c","o","u",
                    "r","s","e"," ","c","l","a","s","s"," ","l","e","a","r","n","i","n",
                    "g"," ","s","t","u","d","e","n","t">>],
      \* an Amazon order whose text holds 17 of the 20 Food & Dining keywords
      [merchant |-> <<"A","m","a","z","o","n">>,
       raw_text |-> <<"r","e","s","t","a","u","r","a","n","t"," ","f","o","o","d"," ",
                      "d","i","n","i","n","g"," ","c","a","f","e"," ","p","i","z","z",
                      "a"," ","b","u","r","g","e","r"," ","s","t","a","r","b","u","c",
                      "k","s"," ","m","c","d","o","n","a","l","d","s"," ","s","u","b",
                      "w","a","y"," ","d","e","l","i","v","e","r","y"," ","t","a","k",
                      "e","o","u","t"," ","b","a","r"," ","p","u","b"," ","b","a","k",
                      "e","r","y"," ","g","r","o","c","e","r","y"," ","s","u","p","e",
                      "r","m","a","r","k","e","t">>],
      \* an Amazon order whose text holds 16 of the 20 Food & Dining keywords
      [merchant |-> <<"A","m","a","z","o","n">>,
       raw_text |-> <<"r","e","s","t","a","u","r","a","n","t"," ","f","o","o","d"," ",
                      "d","i","n","i","n","g"," ","c","a","f","e"," ","p","i","z","z",
                      "a"," ","b","u","r","g","e","r"," ","s","t","a","r","b","u","c",
                      "k","s"," ","m","c","d","o","n","a","l","d","s"," ","s","u","b",
                      "w","a","y"," ","d","e","l","i","v","e","r","y"," ","t","a","k",
                      "e","o","u","t"," ","b","a","r"," ","p","u","b"," ","g","r","o",
                      "c","e","r","y"," ","s","u","p","e","r","m","a","r","k","e","t">>] }

\* the rules registered at runtime: [pattern, category, subcategory, confidence]
RulePool ==
    { [pattern |-> <<"s","t","a","r","b","u","c","k","s">>, category |-> "Coffee",
       subcategory |-> "Cafe", confidence |-> Frac(95, 100)],
      [pattern |-> <<"X","Y","Z">>, category |-> "Shopping",
       subcategory |-> "Wholesale", confidence |-> Frac(9, 10)] }

\* the longest list handed to categorize_transactions
MaxTxs == 2

\* the most rules registered
MaxRules == 2

ResultKeys == {"category", "subcategory", "confidence_score"}

\* a categorization loop body that forgets the confidence
AnnotateWithoutConfidence(transaction, result) ==
    [k \in DOMAIN transaction \cup {"category", "subcategory"} |->
        CASE k = "category" -> result.category
          [] k = "subcategory" -> result.subcategory
          [] OTHER -> transaction[k]]

\* categorize_transactions, loop body: the three keys set on the dict
Annotate(transaction, result) ==
    [k \in DOMAIN transaction \cup ResultKeys |->
        CASE k = "category" -> result.category
          [] k = "subcategory" -> result.subcategory
          [] k = "confidence_score" -> result.confidence
          [] OTHER -> transaction[k]]

RECURSIVE Runs(_, _, _)
\* the runs of the loop of categorize_transactions over a list: one outcome
\* per transaction, up to the first call that raises
Runs(txs, cats, nlp_loaded) ==
    IF txs = <<>> THEN {<<>>}
    ELSE LET outs == categorize_single_transaction(Head(txs), cats, nlp_loaded)
             rest == Runs(Tail(txs), cats, nlp_loaded)
         IN  UNION {IF o.raised THEN {<<o>>} ELSE {<<o>> \o r : r \in rest} :
                       o \in outs}

CategorizerInit ==
    /\ categories = InitialCategories
    /\ nlp \in BOOLEAN
    /\ rules_added = 0
    /\ cat_input = <<>>
    /\ cat_txs = <<>>
    /\ cat_returned = <<>>
    /\ cat_stages = <<>>
    /\ ct_pc = "idle"

\* the caller puts one more transaction on the list it will hand over
AddInput ==
    /\ Len(cat_input) < MaxTxs
    /\ \E t \in TransactionPool : cat_input' = Append(cat_input, t)
    /\ cat_txs' = cat_input'
    /\ cat_returned' = <<>>
    /\ cat_stages' = <<>>
    /\ ct_pc' = "idle"
    /\ UNCHANGED <<categories, nlp, rules_added>>
    /\ UNCHANGED not_ct_vars

\* a registration that assigns the category's pattern list instead of
\* appending to it
add_custom_rule_overwrite(cats, rule) ==
    LET known == \E i \in 1..Len(cats) : cats[i].name = rule.category
        table == IF known THEN cats
                 ELSE Append(cats, [name |-> rule.category, keywords |-> <<>>,
                                    patterns |-> <<>>,
                                    subcategories |-> <<rule.subcategory>>])
    IN  [i \in 1..Len(table) |->
            IF table[i].name = rule.category
            THEN [table[i] EXCEPT
                    !.patterns = <<rule.pattern>>,
                    !.subcategories = IF rule.subcategory \in Range(@) THEN @
                                      ELSE Append(@, rule.subcategory)]
            ELSE table[i]]

\* add_custom_rule(pattern, category, subcategory, confidence)
add_custom_rule(cats, rule) ==
    LET known == \E i \in 1..Len(cats) : cats[i].name = rule.category
        table == IF known THEN cats
                 ELSE Append(cats, [name |-> rule.category, keywords |-> <<>>,
                                    patterns |-> <<>>,
                                    subcategories |-> <<rule.subcategory>>])
    IN  [i \in 1..Len(table) |->
            IF table[i].name = rule.category
            THEN [table[i] EXCEPT
                    !.patterns = Append(@, rule.pattern),
                    !.subcategories = IF rule.subcategory \in Range(@) THEN @
                                      ELSE Append(@, rule.subcategory)]
            ELSE table[i]]

AddCustomRule ==
    /\ rules_added < MaxRules
    /\ \E rule \in RulePool : categories' = add_custom_rule(categories, rule)
    /\ rules_added' = rules_added + 1
    /\ UNCHANGED <<nlp, cat_input, cat_txs, cat_returned, cat_stages, ct_pc>>
    /\ UNCHANGED not_ct_vars

\* categorize_transactions(cat_input): the list is annotated in place and
\* returned; a call of categorize_single_transaction that raises ends the loop
CategorizeTransactions ==
    /\ ct_pc = "idle"
    /\ \E run \in Runs(cat_input, categories, nlp) :
          LET k == Len(run)
              raised == k > 0 /\ run[k].raised
              done == IF raised THEN k - 1 ELSE k
          IN  /\ cat_txs' = [i \in 1..Len(cat_input) |->
                                IF i <= done
                                THEN Annotate(cat_input[i], run[i].result)
                                ELSE cat_input[i]]
              /\ cat_stages' = [i \in 1..k |-> run[i].stages]
              /\ cat_returned' = IF raised THEN <<>> ELSE cat_txs'
              /\ ct_pc' = IF raised THEN "raised" ELSE "returned"
    /\ UNCHANGED <<categories, nlp, rules_added, cat_input>>
    /\ UNCHANGED not_ct_vars

CategorizerNext ==
    \/ AddInput
    \/ AddCustomRule
    \/ CategorizeTransactions

(* Category tables a caller assigns to self.categories (a public attribute), *)
(* with categories of a single keyword, which neither __init__ nor          *)
(* add_custom_rule makes.                                                   *)

SingleKeyword(name, keyword) ==
    [name |-> name, keywords |-> <<keyword>>, patterns |-> <<>>,
     subcategories |-> <<"General">>]

OtherCategory == InitialCategories[Len(InitialCategories)]

FixtureTables ==
    { \* the built-in table with one single-keyword category after 'Other'
      Append(InitialCategories, SingleKeyword("Coffee", <<"e","s","p","r","e","s","s","o">>)),
      \* two single-keyword categories, the first keyword inside the second
      <<SingleKeyword("Pubs", <<"b","a","r">>), SingleKeyword("Barbers", <<"b","a","r","b","e","r">>),
        OtherCategory>>,
      \* the same two in the other order
      <<SingleKeyword("Barbers", <<"b","a","r","b","e","r">>), SingleKeyword("Pubs", <<"b","a","r">>),
        OtherCategory>>,
      \* a keyword written with capitals
      <<SingleKeyword("Furniture", <<"I","K","E","A">>), OtherCategory>> }

\* the keywords of the single-keyword categories of a table
SingleKeywords(cats) ==
    {cats[c].keywords[1] : c \in {d \in 1..Len(cats) : Len(cats[d].keywords) = 1}}

\* transactions whose merchant is such a keyword, alone or with a description
FixtureTransactions(cats) ==
    {[merchant |-> k] : k \in SingleKeywords(cats)} \cup
    {[merchant |-> k, description |-> d] :
        k \in SingleKeywords(cats), d \in SingleKeywords(cats)}

FixtureInit ==
    /\ categories \in FixtureTables
    /\ nlp \in BOOLEAN
    /\ rules_added = 0
    /\ cat_input = <<>>
    /\ cat_txs = <<>>
    /\ cat_returned = <<>>
    /\ cat_stages = <<>>
    /\ ct_pc = "idle"

\* the caller puts one more transaction on the list it will hand over
AddFixtureInput ==
    /\ Len(cat_input) < MaxTxs
    /\ \E t \in FixtureTransactions(categories) : cat_input' = Append(cat_input, t)
    /\ cat_txs' = cat_input'
    /\ cat_returned' = <<>>
    /\ cat_stages' = <<>>
    /\ ct_pc' = "idle"
    /\ UNCHANGED <<categories, nlp, rules_added>>
    /\ UNCHANGED not_ct_vars

FixtureNext ==
    \/ AddFixtureInput
    \/ CategorizeTransactions

(* TransactionCategorizer.detect_recurring_transactions.  Amounts are in     *)
(* dollars and dates in days; the comparison of the variance with             *)
(* (avg_amount * 0.1) ** 2 is made on integers, multiplied out.              *)

\* transaction.get('merchant', 'Unknown')
MerchantOf(t) == Get(t, "merchant", "Unknown")

\* merchant_groups[merchant] of sorted(transactions, key=x.get('date', '')),
\* a stable sort
MerchantGroup(txs, merchant) ==
    SelectSeq(SortByDate(txs), LAMBDA t : MerchantOf(t) = merchant)

\* [t.get('amount', 0) for t in merchant_transactions]
GroupAmounts(group) == [i \in 1..Len(group) |-> Get(group[i], "amount", 0)]

\* a test that takes groups of two
IsRecurringFromTwo(group) ==
    /\ Len(group) >= 2
    /\ 100 * VarTimesNSquared(GroupAmounts(group))
           < SumSeq(GroupAmounts(group)) * SumSeq(GroupAmounts(group))

\* len(merchant_transactions) >= 3 and amount_variance < (avg_amount * 0.1) ** 2,
\* both sides multiplied by 100 * n^2
IsRecurring(group) ==
    /\ Len(group) >= 3
    /\ 100 * VarTimesNSquared(GroupAmounts(group))
           < SumSeq(GroupAmounts(group)) * SumSeq(GroupAmounts(group))

\* transaction['is_recurring'] = True
MarkRecurring(t) ==
    [k \in DOMAIN t \cup {"is_recurring"} |-> IF k = "is_recurring" THEN TRUE ELSE t[k]]

\* the list detect_recurring_transactions returns: the groups that qualify,
\* in order of first appearance in the list sorted by date
RecurringOf(txs, merchants) ==
    Flatten(<<>> \o [m \in 1..Len(merchants) |->
        IF IsRecurring(MerchantGroup(txs, merchants[m]))
        THEN <<>> \o [i \in 1..Len(MerchantGroup(txs, merchants[m])) |->
                        MarkRecurring(MerchantGroup(txs, merchants[m])[i])]
        ELSE <<>>])

detect_recurring_transactions(txs) ==
    RecurringOf(txs, Distinct(<<>> \o [i \in 1..Len(txs) |-> MerchantOf(SortByDate(txs)[i])]))

\* the transactions handed to detect_recurring_transactions: a subscription
\* charged three times, once at a raised price and once at a much higher
\* one; a gym with amounts a tenth and a fifth off; a purchase with no
\* merchant; a refund and a purchase with no amount
RecurringPool ==
    { [merchant |-> "NETFLIX", amount |-> 16, date |-> 1],
      [merchant |-> "NETFLIX", amount |-> 16, date |-> 31],
      [merchant |-> "NETFLIX", amount |-> 17, date |-> 61],
      [merchant |-> "NETFLIX", amount |-> 90, date |-> 70],
      [merchant |-> "GYM", amount |-> 10, date |-> 3],
      [merchant |-> "GYM", amount |-> 11, date |-> 33],
      [merchant |-> "GYM", amount |-> 13, date |-> 2],
      [amount |-> 5, date |-> 7],
      [merchant |-> "GYM", date |-> 40] }

\* the longest list handed to detect_recurring_transactions
MaxRecurringTxs == 4

AddRecurringInput ==
    /\ Len(cat_input) < MaxRecurringTxs
    /\ \E t \in RecurringPool : cat_input' = Append(cat_input, t)
    /\ cat_txs' = cat_input'
    /\ cat_returned' = <<>>
    /\ cat_stages' = <<>>
    /\ ct_pc' = "idle"
    /\ UNCHANGED <<categories, nlp, rules_added>>
    /\ UNCHANGED not_ct_vars

\* detect_recurring_transactions(cat_input): the dicts of the groups that
\* qualify are marked in place, and returned
DetectRecurringTransactions ==
    /\ ct_pc = "idle"
    /\ cat_returned' = detect_recurring_transactions(cat_input)
    /\ cat_txs' = [i \in 1..Len(cat_input) |->
                      IF IsRecurring(MerchantGroup(cat_input, MerchantOf(cat_input[i])))
                      THEN MarkRecurring(cat_input[i])
                      ELSE cat_input[i]]
    /\ ct_pc' = "returned"
    /\ UNCHANGED <<categories, nlp, rules_added, cat_input, cat_stages>>
    /\ UNCHANGED not_ct_vars

RecurringNext ==
    \/ AddRecurringInput
    \/ DetectRecurringTransactions

-----------------------------------------------------------------------------
(* TransactionExtractor (services/transaction_extractor.py)                 *)
(*                                                                          *)
(* A str is a sequence of one-character strings.  The regular expressions   *)
(* of the extractor are carried as matcher programs and matched the way    *)
(* Python's re does: leftmost start, greedy quantifiers, backtracking in    *)
(* priority order.  Amounts are integers in cents, a datetime is the        *)
(* integer yyyymmdd of its calendar day (dateparser returns midnight for a  *)
(* date without a time).                                                    *)

Digit == {"0", "1", "2", "3", "4", "5", "6", "7", "8", "9"}

Letter == Range(Uppercase) \cup Range(Lowercase)

\* \w
WordChar == Digit \cup Letter \cup {"_"}

\* \s
Whitespace == {" ", "\t"}

\* [\/\-]
DateSep == {"/", "-"}

\* The regular expressions are programs for a backtracking matcher: a
\* sequence of instructions, each a class repetition, a choice between two
\* continuations (the first is tried first), a jump, or the opening or
\* closing of the capturing group.

\* a character class repeated lo..hi times, greedily (hi < 0: no upper limit)
Cls(S, lo, hi) == <<[op |-> "cls", set |-> S, lo |-> lo, hi |-> hi, x |-> 0, y |-> 0]>>

Split(x, y) == [op |-> "split", set |-> {}, lo |-> 0, hi |-> 0, x |-> x, y |-> y]

Jmp(x) == [op |-> "jmp", set |-> {}, lo |-> 0, hi |-> 0, x |-> x, y |-> 0]

\* ( and ) of the capturing group
Open == <<[op |-> "open", set |-> {}, lo |-> 0, hi |-> 0, x |-> 0, y |-> 0]>>

Close == <<[op |-> "close", set |-> {}, lo |-> 0, hi |-> 0, x |-> 0, y |-> 0]>>

\* (?:body)?
Opt(body) == <<Split(1, Len(body) + 1)>> \o body

\* (?:body)*
Star(body) == <<Split(1, Len(body) + 2)>> \o body \o <<Jmp(-(Len(body) + 1))>>

\* (?:a|b)
Alt(a, b) == <<Split(1, Len(a) + 2)>> \o a \o <<Jmp(Len(b) + 1)>> \o b

\* the characters re.IGNORECASE lets a literal character match
CaseSet(c) == {d \in Letter \cup {c} : LowerChar(d) = LowerChar(c)}

\* a literal under re.IGNORECASE
CiLit(str) == Flatten(<<>> \o [i \in 1..Len(str) |-> Cls(CaseSet(str[i]), 1, 1)])

\* the most repetitions of class instruction n that fit at position p
Most(n, s, p) == IF n.hi < 0 THEN Len(s) - p + 1 ELSE Min(n.hi, Len(s) - p + 1)

\* how many characters from position p on are in the class, up to most
RunLength(n, s, p, most) ==
    CHOOSE m \in 0..most :
        /\ \A q \in p..(p + m - 1) : s[q] \in n.set
        /\ m = most \/ s[p + m] \notin n.set

\* the positions p + run, ..., p + lo, or none when run < lo
Countdown(p, run, lo) ==
    IF run < lo THEN <<>> ELSE <<>> \o [j \in 1..(run - lo + 1) |-> p + run - j + 1]

\* the end positions of a class repetition starting at p, longest first
ClsEnds(n, s, p) == Countdown(p, RunLength(n, s, p, Most(n, s, p)), n.lo)

\* the configurations <<pc, position, group marks>> after a class repetition
AfterCls(pc, ends, g) == <<>> \o [j \in 1..Len(ends) |-> <<pc + 1, ends[j], g>>]

\* the configurations the matcher tries, in order, after instruction i at
\* pc, position p, group marks g = <<start, end>>
Successors(i, pc, s, p, g) ==
    CASE i.op = "cls"   -> AfterCls(pc, ClsEnds(i, s, p), g)
      [] i.op = "split" -> << <<pc + i.x, p, g>>, <<pc + i.y, p, g>> >>
      [] i.op = "jmp"   -> << <<pc + i.x, p, g>> >>
      [] i.op = "open"  -> << <<pc + 1, p, <<p, g[2]>> >> >>
      [] i.op = "close" -> << <<pc + 1, p, <<g[1], p>> >> >>

RECURSIVE Run(_, _, _, _, _)
RECURSIVE RunEach(_, _, _)

\* the matches of the program from instruction pc and position p on: each
\* <<group start, group end, match end>>, in the order the backtracking
\* matcher finds them
Run(prog, pc, s, p, g) ==
    IF pc > Len(prog) THEN << <<g[1], g[2], p>> >>
    ELSE RunEach(prog, s, Successors(prog[pc], pc, s, p, g))

RunEach(prog, s, next) ==
    Flatten(<<>> \o [j \in 1..Len(next) |->
        Run(prog, next[j][1], s, next[j][2], next[j][3])])

\* the matches of a pattern that start at position i
MatchAt(re, s, i) == Run(re, 1, s, i, <<i, i>>)

NoHit == [found |-> FALSE, start |-> 0, stop |-> 0, group |-> <<>>]

\* a match object: where the match starts and stops, and its group(1)
Hit(s, from, m) ==
    [found |-> TRUE, start |-> from, stop |-> m[3], group |-> SubSeq(s, m[1], m[2] - 1)]

RECURSIVE Search(_, _, _)
RECURSIVE SearchStep(_, _, _, _)

\* re.search(pattern, s) from position `from` on: the leftmost match
Search(re, s, from) ==
    IF from > Len(s) + 1 THEN NoHit
    ELSE SearchStep(re, s, from, MatchAt(re, s, from))

SearchStep(re, s, from, matches) ==
    IF Len(matches) = 0 THEN Search(re, s, from + 1) ELSE Hit(s, from, matches[1])

RECURSIVE Findall(_, _, _)
RECURSIVE FindallStep(_, _, _)

\* re.findall(pattern, s): the group of every non-overlapping match, left
\* to right
Findall(re, s, from) == FindallStep(re, s, Search(re, s, from))

FindallStep(re, s, hit) ==
    IF ~hit.found THEN <<>>
    ELSE <<hit.group>> \o
         Findall(re, s, IF hit.stop > hit.start THEN hit.stop ELSE hit.start + 1)

\* re.match(r'^...$', s)
FullMatch(re, s) == \E m \in Range(MatchAt(re, s, 1)) : m[3] = Len(s) + 1

\* \d{1,3}(?:,\d{3})*(?:\.\d{2})?
Number ==
    Cls(Digit, 1, 3) \o Star(Cls({","}, 1, 1) \o Cls(Digit, 3, 3))
    \o Opt(Cls({"."}, 1, 1) \o Cls(Digit, 2, 2))

\* \d{1,2}[\/\-]\d{1,2}[\/\-]\d{2,4}
DayMonthYear ==
    Cls(Digit, 1, 2) \o Cls(DateSep, 1, 1) \o Cls(Digit, 1, 2) \o Cls(DateSep, 1, 1)
    \o Cls(Digit, 2, 4)

\* \d{4}[\/\-]\d{1,2}[\/\-]\d{1,2}
YearMonthDay ==
    Cls(Digit, 4, 4) \o Cls(DateSep, 1, 1) \o Cls(Digit, 1, 2) \o Cls(DateSep, 1, 1)
    \o Cls(Digit, 1, 2)

\* \w{3}\s+\d{1,2},?\s+\d{4}
MonthDayYear ==
    Cls(WordChar, 3, 3) \o Cls(Whitespace, 1, -1) \o Cls(Digit, 1, 2) \o Cls({","}, 0, 1)
    \o Cls(Whitespace, 1, -1) \o Cls(Digit, 4, 4)

\* \d{1,2}\s+\w{3}\s+\d{4}
DayMonthNameYear ==
    Cls(Digit, 1, 2) \o Cls(Whitespace, 1, -1) \o Cls(WordChar, 3, 3)
    \o Cls(Whitespace, 1, -1) \o Cls(Digit, 4, 4)

\* self.transaction_patterns['date']
date_patterns ==
    << Open \o DayMonthYear \o Close,
       Open \o YearMonthDay \o Close,
       Open \o MonthDayYear \o Close,
       Open \o DayMonthNameYear \o Close >>

\* self.transaction_patterns['amount'], matched with re.IGNORECASE
amount_patterns ==
    << Cls({"$"}, 1, 1) \o Open \o Number \o Close,
       Open \o Number \o Close \o Cls(Whitespace, 0, -1)
           \o Alt(CiLit(<<"U", "S", "D">>), CiLit(<<"d", "o", "l", "l", "a",
               "r">>) \o Cls(CaseSet("s"), 0, 1)),
       Open \o Number \o Close \o Cls(Whitespace, 0, -1) \o CiLit(<<"C", "R">>),
       Open \o Number \o Close \o Cls(Whitespace, 0, -1) \o CiLit(<<"D", "R">>) >>

\* [A-Z0-9\s&\-\.] under re.IGNORECASE
MerchantChar == Letter \cup Digit \cup Whitespace \cup {"&", "-", "."}

\* self.transaction_patterns['merchant'], matched with re.IGNORECASE
merchant_patterns ==
    << Open \o Cls(Letter, 1, 1) \o Cls(MerchantChar, 3, 30) \o Close,
       Open \o Cls(MerchantChar, 3, 30) \o Close \o Cls(Whitespace, 1, -1)
           \o Cls(Digit, 1, 2) \o Cls(DateSep, 1, 1) \o Cls(Digit, 1, 2) >>

\* ^\d+[\/\-]\d+[\/\-]\d+$
DateWord ==
    Cls(Digit, 1, -1) \o Cls(DateSep, 1, 1) \o Cls(Digit, 1, -1) \o Cls(DateSep, 1, 1)
    \o Cls(Digit, 1, -1)

\* ^\$?\d+[\.,]\d+$
AmountWord ==
    Cls({"$"}, 0, 1) \o Cls(Digit, 1, -1) \o Cls({".", ","}, 1, 1) \o Cls(Digit, 1, -1)

\* numeric_patterns of count_numeric_fields (no group: findall returns the
\* whole match)
numeric_patterns ==
    << Open \o DayMonthYear \o Close,
       Open \o Cls({"$"}, 0, 1) \o Number \o Close,
       Open \o Cls(Digit, 4, 4) \o Close >>

\* \$?(\d{1,3}(?:,\d{3})*(?:\.\d{2})?) of parse_table_fields
table_amount_pattern == Cls({"$"}, 0, 1) \o Open \o Number \o Close

RECURSIVE Strip(_)
\* str.strip()
Strip(s) ==
    IF Len(s) = 0 THEN s
    ELSE IF s[1] \in Whitespace THEN Strip(Tail(s))
    ELSE IF s[Len(s)] \in Whitespace THEN Strip(SubSeq(s, 1, Len(s) - 1))
    ELSE s

RECURSIVE SplitRuns(_, _, _, _)
\* the pieces of s between the separators: runs of at least minrun
\* characters of seps (cur is the piece being read); empty pieces included
SplitRuns(s, seps, minrun, cur) ==
    IF Len(s) = 0 THEN <<cur>>
    ELSE LET run == CHOOSE m \in 0..Len(s) :
                        /\ \A q \in 1..m : s[q] \in seps
                        /\ m = Len(s) \/ s[m + 1] \notin seps
         IN  IF run >= minrun
             THEN <<cur>> \o SplitRuns(SubSeq(s, run + 1, Len(s)), seps, minrun, <<>>)
             ELSE IF run > 0
             THEN SplitRuns(SubSeq(s, run + 1, Len(s)), seps, minrun,
                            cur \o SubSeq(s, 1, run))
             ELSE SplitRuns(Tail(s), seps, minrun, Append(cur, Head(s)))

RECURSIVE SplitEach(_, _, _)
\* str.split(sep) for a one-character sep
SplitEach(s, sep, cur) ==
    IF Len(s) = 0 THEN <<cur>>
    ELSE IF Head(s) = sep THEN <<cur>> \o SplitEach(Tail(s), sep, <<>>)
    ELSE SplitEach(Tail(s), sep, Append(cur, Head(s)))

\* the non-empty members of a list of str
NonEmpty(parts) == Flatten(<<>> \o [i \in 1..Len(parts) |->
                       IF Len(parts[i]) > 0 THEN <<parts[i]>> ELSE <<>>])

\* str.split()
SplitWhitespace(s) == NonEmpty(SplitRuns(s, Whitespace, 1, <<>>))

RECURSIVE ToInt(_)
\* int() of a str of digits
ToInt(s) ==
    IF Len(s) = 0 THEN 0
    ELSE 10 * ToInt(SubSeq(s, 1, Len(s) - 1))
         + (CHOOSE d \in 0..9 : <<"0", "1", "2", "3", "4", "5", "6", "7", "8", "9">>[d + 1]
                                   = s[Len(s)])

\* cents in a dollar
Cents == 100

\* float(s.replace(',', '')) for a str the Number pattern matched, in cents
ToAmount(s) ==
    LET plain == Flatten(<<>> \o [i \in 1..Len(s) |-> IF s[i] = "," THEN <<>> ELSE <<s[i]>>])
        parts == SplitEach(plain, ".", <<>>)
    IN  Cents * ToInt(parts[1]) + (IF Len(parts) > 1 THEN ToInt(parts[2]) ELSE 0)

\* dateparser.parse returned None
NoDate == 0

\* a datetime dateparser made of a str that is not a calendar date in one
\* of the shapes below
OtherDate == 19000101

MonthNames == << <<"j", "a", "n">>, <<"f", "e", "b">>, <<"m", "a", "r">>, <<"a", "p", "r">>,
    <<"m", "a", "y">>, <<"j", "u", "n">>, <<"j", "u", "l">>, <<"a", "u", "g">>, <<"s", "e",
    "p">>,
                 <<"o", "c", "t">>, <<"n", "o", "v">>, <<"d", "e", "c">> >>

IsLeap(y) == (y % 4 = 0 /\ y % 100 # 0) \/ y % 400 = 0

DaysIn(m, y) ==
    IF m = 2 THEN (IF IsLeap(y) THEN 29 ELSE 28)
    ELSE IF m \in {4, 6, 9, 11} THEN 30 ELSE 31

\* the datetimes (as yyyymmdd) of year y, month m, day d, if that is a day
Date(y, m, d) ==
    IF y >= 1 /\ m \in 1..12 /\ d >= 1 /\ d <= DaysIn(m, y)
    THEN {y * 10000 + m * 100 + d} ELSE {}

\* a two-digit year as strptime's %y reads it
FullYear(y) == IF y >= 100 THEN y ELSE IF y <= 68 THEN 2000 + y ELSE 1900 + y

\* the month a month name or abbreviation stands for
Month(w) == {m \in 1..12 : MonthNames[m] = Lower(w)}

\* a/b/c: month first if that is a day of the calendar; if not, day first,
\* year first, or no date
NumericDate(a, b, c) ==
    IF Date(FullYear(c), a, b) # {} THEN Date(FullYear(c), a, b)
    ELSE {NoDate} \cup Date(FullYear(c), b, a) \cup Date(FullYear(a), b, c)

\* the dates read from a str that has the shape of a date, or no date
OrNoDate(dates) == IF dates # {} THEN dates ELSE {NoDate}

\* a date with a three-letter word for the month
NamedDate(word, day, year) ==
    IF Month(word) # {}
    THEN OrNoDate(UNION {Date(ToInt(year), m, ToInt(day)) : m \in Month(word)})
    ELSE {NoDate, OtherDate}

\* the numbers of a numeric date
DateNumbers(s) == NonEmpty(SplitRuns(s, DateSep, 1, <<>>))

\* the words of a date with a month name
DateWords(s) == NonEmpty(SplitRuns(s, Whitespace \cup {","}, 1, <<>>))

NumericDateOf(nums) == NumericDate(ToInt(nums[1]), ToInt(nums[2]), ToInt(nums[3]))

YearFirstDateOf(nums) == OrNoDate(Date(ToInt(nums[1]), ToInt(nums[2]), ToInt(nums[3])))

MonthFirstDateOf(toks) == NamedDate(toks[1], toks[2], toks[3])

DayFirstDateOf(toks) == NamedDate(toks[2], toks[1], toks[3])

\* dateparser.parse(s): what the call can return.  A numeric date that is
\* valid month-first is read month-first; one that is not may be read in
\* another order or rejected; a month-name date is read if it names a day of
\* the calendar; any other str with a digit in it may or may not be read as
\* some date; a str without a digit is not a date.
DateparserParse(s) ==
    IF FullMatch(DayMonthYear, s) THEN NumericDateOf(DateNumbers(s))
    ELSE IF FullMatch(YearMonthDay, s) THEN YearFirstDateOf(DateNumbers(s))
    ELSE IF FullMatch(MonthDayYear, s) THEN MonthFirstDateOf(DateWords(s))
    ELSE IF FullMatch(DayMonthNameYear, s) THEN DayFirstDateOf(DateWords(s))
    ELSE IF \E i \in 1..Len(s) : s[i] \in Digit THEN {NoDate, OtherDate}
    ELSE {NoDate}

\* dict[key] = value
Put(d, key, value) ==
    [k \in DOMAIN d \cup {key} |-> IF k = key THEN value ELSE d[k]]

\* any(re.search(pattern, line, re.IGNORECASE) for pattern in patterns)
AnyPattern(patterns, line) ==
    \E p \in 1..Len(patterns) : Search(patterns[p], line, 1).found

has_date(line) == AnyPattern(date_patterns, line)

has_amount(line) == AnyPattern(amount_patterns, line)

\* a line test that is content with either token
is_transaction_line_either(line) == has_date(line) \/ has_amount(line)

\* is_transaction_line
is_transaction_line(line) == has_date(line) /\ has_amount(line)

RECURSIVE FirstGroup(_, _, _)
RECURSIVE FirstGroupStep(_, _, _, _)

\* `for pattern in patterns: match = re.search(...); if match: break`, from
\* pattern p on: the first match, in list order
FirstGroup(patterns, line, p) ==
    IF p > Len(patterns) THEN NoHit
    ELSE FirstGroupStep(patterns, line, p, Search(patterns[p], line, 1))

FirstGroupStep(patterns, line, p, hit) ==
    IF hit.found THEN hit ELSE FirstGroup(patterns, line, p + 1)

\* max(candidates, key=len): the first of the longest
Longest(candidates) ==
    candidates[CHOOSE i \in 1..Len(candidates) :
                  /\ \A j \in 1..Len(candidates) : Len(candidates[j]) <= Len(candidates[i])
                  /\ \A j \in 1..(i - 1) : Len(candidates[j]) < Len(candidates[i])]

\* the words or fields that are neither a date nor an amount and are longer
\* than two characters
DescriptionParts(words) ==
    Flatten(<<>> \o [i \in 1..Len(words) |->
        IF ~FullMatch(DateWord, words[i]) /\ ~FullMatch(AmountWord, words[i])
           /\ Len(words[i]) > 2
        THEN <<words[i]>> ELSE <<>>])

\* a return value that keeps every candidate
KeepIncomplete(transaction) == <<transaction>>

\* `return transaction if 'date' in transaction and 'amount' in transaction
\* else None`: a list of the candidate, or the empty list for None
Complete(transaction) ==
    IF "date" \in DOMAIN transaction /\ "amount" \in DOMAIN transaction
    THEN <<transaction>> ELSE <<>>

\* parse_transaction_line, lines 78-83: the date or the unparsed date string
WithDate(t, date_match, parsed_date) ==
    IF ~date_match.found THEN t
    ELSE IF parsed_date # NoDate THEN Put(t, "date", parsed_date)
    ELSE Put(t, "date_string", date_match.group)

\* parse_transaction_line, lines 92-97
WithAmount(t, amount_match) ==
    IF amount_match.found THEN Put(t, "amount", ToAmount(amount_match.group)) ELSE t

WithMerchantName(t, merchant) ==
    IF Len(merchant) > 2 THEN Put(t, "merchant", merchant) ELSE t

\* parse_transaction_line, lines 99-107
WithMerchant(t, merchant_candidates) ==
    IF Len(merchant_candidates) > 0
    THEN WithMerchantName(t, Strip(Longest(merchant_candidates)))
    ELSE t

\* parse_transaction_line, lines 109-118
WithDescription(t, description_parts, most) ==
    IF Len(description_parts) > 0
    THEN Put(t, "description",
             JoinWithSpace(SubSeq(description_parts, 1, Min(most, Len(description_parts)))))
    ELSE t

\* parse_transaction_line, lines 120-123
WithPrevious(t, prev_line, prev_is_transaction_line) ==
    IF ~prev_is_transaction_line /\ Len(prev_line) > 10
    THEN Put(t, "additional_description", prev_line)
    ELSE t

\* what dateparser can make of the date token of a line
ParsedDates(date_match) ==
    IF date_match.found THEN DateparserParse(date_match.group) ELSE {NoDate}

\* parse_transaction_line, last line, for each date dateparser can return
LineOutcomes(t, date_match) ==
    {Complete(WithDate(t, date_match, parsed_date)) :
        parsed_date \in ParsedDates(date_match)}

\* the line before line_index, or the empty str for the first line
PreviousLine(all_lines, line_index) ==
    IF line_index > 1 THEN all_lines[line_index - 1] ELSE <<>>

\* parse_transaction_line(line, all_lines, line_index), line_index counted
\* from 1: the transactions the call can return, each as a list of one, or
\* the empty list for None
parse_transaction_line(line, all_lines, line_index) ==
    LineOutcomes(
        WithPrevious(
            WithDescription(
                WithMerchant(
                    WithAmount([raw_text |-> line, line_number |-> line_index - 1],
                               FirstGroup(amount_patterns, line, 1)),
                    Findall(merchant_patterns[1], line, 1)
                        \o Findall(merchant_patterns[2], line, 1)),
                DescriptionParts(SplitWhitespace(line)), 10),
            PreviousLine(all_lines, line_index),
            line_index = 1 \/ is_transaction_line(PreviousLine(all_lines, line_index))),
        FirstGroup(date_patterns, line, 1))

\* count_numeric_fields
count_numeric_fields(line) ==
    Len(Findall(numeric_patterns[1], line, 1))
    + Len(Findall(numeric_patterns[2], line, 1))
    + Len(Findall(numeric_patterns[3], line, 1))

\* split_table_line
split_table_line(line) ==
    LET fields == IF "\t" \in Range(line) THEN SplitEach(line, "\t", <<>>)
                  ELSE IF IsSubstring(<<" ", " ">>, line)
                  THEN SplitRuns(line, Whitespace, 2, <<>>)
                  ELSE SplitWhitespace(line)
    IN  NonEmpty(<<>> \o [i \in 1..Len(fields) |-> Strip(fields[i])])

RECURSIVE FirstDate(_, _)
\* the first loop of parse_table_fields from field i on: the datetimes
\* dateparser can return for the first field it reads as a date
FirstDate(fields, i) ==
    IF i > Len(fields) THEN {NoDate}
    ELSE UNION {IF d # NoDate THEN {d} ELSE FirstDate(fields, i + 1) :
                   d \in DateparserParse(fields[i])}

RECURSIVE FirstAmount(_, _)
RECURSIVE FirstAmountStep(_, _, _)

\* the second loop of parse_table_fields from field i on: the match in the
\* first field that has an amount
FirstAmount(fields, i) ==
    IF i > Len(fields) THEN NoHit
    ELSE FirstAmountStep(fields, i, Search(table_amount_pattern, fields[i], 1))

FirstAmountStep(fields, i, hit) ==
    IF hit.found THEN hit ELSE FirstAmount(fields, i + 1)

\* parse_table_fields, lines 201-205
WithTableDescription(t, description_fields) ==
    IF Len(description_fields) > 0
    THEN Put(WithDescription(t, description_fields, 5), "merchant", description_fields[1])
    ELSE t

\* parse_table_fields, last line, for each date dateparser can return
TableOutcomes(t, dates) ==
    {Complete(IF d # NoDate THEN Put(t, "date", d) ELSE t) : d \in dates}

\* parse_table_fields
parse_table_fields(fields, raw_line) ==
    TableOutcomes(
        WithTableDescription(
            WithAmount([raw_text |-> raw_line, table_fields |-> fields],
                       FirstAmount(fields, 1)),
            DescriptionParts(fields)),
        FirstDate(fields, 1))

RECURSIVE Product(_)
\* the lists made of one choice from each set of lists, concatenated
Product(choices) ==
    IF Len(choices) = 0 THEN {<<>>}
    ELSE {h \o t : h \in Head(choices), t \in Product(Tail(choices))}

\* the fewest potential table lines the tabular strategy does not accept
MaxNonTable == 3

\* the transactions of a table row, if it has at least 3 fields
RowOutcomes(fields, line) ==
    IF Len(fields) >= 3 THEN parse_table_fields(fields, line) ELSE {<<>>}

\* a tabular strategy that takes any number of potential table lines
TableRowsAnyNumber(potential_table_lines) ==
    Product(<<>> \o [i \in 1..Len(potential_table_lines) |->
        RowOutcomes(split_table_line(potential_table_lines[i]),
                    potential_table_lines[i])])

\* extract_tabular_transactions, lines 137-143
TableRows(potential_table_lines) ==
    IF Len(potential_table_lines) > MaxNonTable
    THEN Product(<<>> \o [i \in 1..Len(potential_table_lines) |->
             RowOutcomes(split_table_line(potential_table_lines[i]),
                         potential_table_lines[i])])
    ELSE {<<>>}

\* extract_tabular_transactions on the raw lines of the text
extract_tabular_transactions(lines) ==
    TableRows(Flatten(<<>> \o [i \in 1..Len(lines) |->
        IF count_numeric_fields(lines[i]) >= 2 THEN <<lines[i]>> ELSE <<>>]))

\* the longest merchant prefix that enters the deduplication key
MerchantPrefix == 20

\* a key that takes the whole merchant name
TransactionKeyWholeMerchant(transaction) ==
    << "date" \in DOMAIN transaction, Get(transaction, "date", NoDate),
       "amount" \in DOMAIN transaction, Get(transaction, "amount", 0),
       Get(transaction, "merchant", <<>>) >>

\* the key of deduplicate_transactions: (date, amount, merchant[:20]), a
\* missing date or amount being None
TransactionKey(transaction) ==
    << "date" \in DOMAIN transaction, Get(transaction, "date", NoDate),
       "amount" \in DOMAIN transaction, Get(transaction, "amount", 0),
       SubSeq(Get(transaction, "merchant", <<>>), 1,
              Min(MerchantPrefix, Len(Get(transaction, "merchant", <<>>)))) >>

RECURSIVE DedupLoop(_, _, _)
\* the loop of deduplicate_transactions
DedupLoop(txs, seen, unique_transactions) ==
    IF Len(txs) = 0 THEN unique_transactions
    ELSE IF TransactionKey(Head(txs)) \in seen
         THEN DedupLoop(Tail(txs), seen, unique_transactions)
         ELSE DedupLoop(Tail(txs), seen \cup {TransactionKey(Head(txs))},
                        Append(unique_transactions, Head(txs)))

\* deduplicate_transactions
deduplicate_transactions(txs) == DedupLoop(txs, {}, <<>>)

\* cleaned_lines of extract_transactions
CleanedLines(lines) ==
    NonEmpty(<<>> \o [i \in 1..Len(lines) |-> Strip(lines[i])])

\* is_transaction_line of every cleaned line, as extract_transactions calls it
LineTests(cleaned_lines) ==
    <<>> \o [i \in 1..Len(cleaned_lines) |-> is_transaction_line(cleaned_lines[i])]

RECURSIVE LineCandidatesFrom(_, _)
\* a loop over cleaned_lines that ends at the first line that gives no record
LineCandidatesFrom(cleaned_lines, i) ==
    IF i > Len(cleaned_lines) THEN {<<>>}
    ELSE IF ~is_transaction_line(cleaned_lines[i])
    THEN LineCandidatesFrom(cleaned_lines, i + 1)
    ELSE UNION {IF r = <<>> THEN {<<>>}
                ELSE {r \o rest : rest \in LineCandidatesFrom(cleaned_lines, i + 1)} :
                    r \in parse_transaction_line(cleaned_lines[i], cleaned_lines, i)}

LineCandidatesUntilFailure(cleaned_lines) == LineCandidatesFrom(cleaned_lines, 1)

\* the line-oriented strategy of extract_transactions: the candidate lists
\* the loop over cleaned_lines can build
LineCandidates(cleaned_lines) ==
    Product(<<>> \o [i \in 1..Len(cleaned_lines) |->
        IF is_transaction_line(cleaned_lines[i])
        THEN parse_transaction_line(cleaned_lines[i], cleaned_lines, i)
        ELSE {<<>>}])

\* the lines of the statements handed to extract_transactions: a line with
\* a date and an amount; one whose date token is no day of the calendar; one
\* with an amount only; one with a date only; an indented, tab-separated
\* line with a month name and an amount in USD
LinePool ==
    { <<"0", "1", "/", "1", "5", "/", "2", "0", "2", "4", " ", "S", "T", "A", "R", "B", "U", "C",
        "K", "S", " ", "$", "4", ".", "5", "0">>,
      <<"1", "3", "/", "4", "5", "/", "2", "0", "2", "4", " ", "S", "T", "O", "R", "E", " ", "$",
          "2", "0", ".", "0", "0">>,
      <<"T", "O", "T", "A", "L", " ", "D", "U", "E", " ", "$", "4", "5", ".", "0", "0">>,
      <<"S", "t", "a", "t", "e", "m", "e", "n", "t", " ", "d", "a", "t", "e", " ", "0", "1", "/",
          "1", "6", "/", "2", "0", "2", "4">>,
      <<" ", " ", "J", "a", "n", " ", "5", ",", " ", "2", "0", "2", "4", "\t", "U", "B", "E",
          "R", " ", "T", "R", "I", "P", "\t", "1", "2", ".", "0", "0", " ", "U", "S", "D">> }

\* the most lines in a statement
MaxLines == 4

\* the candidates handed to deduplicate_transactions directly
CandidatePool ==
    { [date |-> 20240115, amount |-> 450, merchant |-> <<"A", "C", "M", "E", " ", "I", "N", "T",
        "E", "R", "N", "A", "T", "I", "O", "N", "A", "L", " ", "T", "R", "A", "D", "I", "N", "G",
        " ", "C", "O">>],
      [date |-> 20240115, amount |-> 450, merchant |-> <<"A", "C", "M", "E", " ", "I", "N", "T",
          "E", "R", "N", "A", "T", "I", "O", "N", "A", "L", " ", "T", "R", "A", "D", "I", "N",
          "G", " ", "L", "L", "C">>],
      [date |-> 20240115, amount |-> 450],
      [date |-> 20240115, amount |-> 500, merchant |-> <<"A", "C", "M", "E", " ", "I", "N", "T",
          "E", "R", "N", "A", "T", "I", "O", "N", "A", "L", " ", "T", "R", "A", "D", "I", "N",
          "G", " ", "C", "O">>],
      [date |-> 20240116, amount |-> 450, merchant |-> <<"A", "C", "M", "E", " ", "I", "N", "T",
          "E", "R", "N", "A", "T", "I", "O", "N", "A", "L", " ", "T", "R", "A", "D", "I", "N",
          "G", " ", "C", "O">>],
      [amount |-> 450, merchant |-> <<"A", "C", "M", "E">>] }

\* the most candidates handed to deduplicate_transactions directly
MaxCandidates == 3

ExtractorInit ==
    /\ ex_text = <<>>
    /\ ex_is_tx = <<>>
    /\ ex_candidates = <<>>
    /\ ex_result = <<>>
    /\ ex_pc = "idle"
    /\ dd_input = <<>>
    /\ dd_output = <<>>
    /\ dd_pc = "idle"

\* One call is followed at a time: extract_transactions on a text, or
\* deduplicate_transactions on a list of candidates.

\* the statement text grows by one line
AddLine ==
    /\ ex_pc = "idle"
    /\ dd_input = <<>>
    /\ dd_pc = "idle"
    /\ Len(ex_text) < MaxLines
    /\ \E line \in LinePool : ex_text' = Append(ex_text, line)
    /\ UNCHANGED <<ex_is_tx, ex_candidates, ex_result, ex_pc, dd_input, dd_output, dd_pc>>
    /\ UNCHANGED not_ex_vars

\* extract_transactions(text), text being the lines of ex_text joined by '\n'
ExtractTransactions ==
    /\ ex_pc = "idle"
    /\ dd_input = <<>>
    /\ dd_pc = "idle"
    /\ ex_is_tx' = LineTests(CleanedLines(ex_text))
    /\ \E byLine \in LineCandidates(CleanedLines(ex_text)),
          byTable \in extract_tabular_transactions(ex_text) :
              /\ ex_candidates' = byLine \o byTable
              /\ ex_result' = deduplicate_transactions(ex_candidates')
    /\ ex_pc' = "returned"
    /\ UNCHANGED <<ex_text, dd_input, dd_output, dd_pc>>
    /\ UNCHANGED not_ex_vars

\* the caller puts one more candidate on the list for deduplicate_transactions
AddCandidate ==
    /\ dd_pc = "idle"
    /\ ex_text = <<>>
    /\ ex_pc = "idle"
    /\ Len(dd_input) < MaxCandidates
    /\ \E c \in CandidatePool : dd_input' = Append(dd_input, c)
    /\ UNCHANGED <<ex_text, ex_is_tx, ex_candidates, ex_result, ex_pc, dd_output, dd_pc>>
    /\ UNCHANGED not_ex_vars

\* deduplicate_transactions(dd_input)
DeduplicateTransactions ==
    /\ dd_pc = "idle"
    /\ ex_text = <<>>
    /\ ex_pc = "idle"
    /\ dd_output' = deduplicate_transactions(dd_input)
    /\ dd_pc' = "returned"
    /\ UNCHANGED <<ex_text, ex_is_tx, ex_candidates, ex_result, ex_pc, dd_input>>
    /\ UNCHANGED not_ex_vars

ExtractorNext ==
    \/ AddLine
    \/ ExtractTransactions
    \/ AddCandidate
    \/ DeduplicateTransactions

\* the lines of the statements laid out as tables: a tab-separated row of
\* date, merchant and amount; a row of two fields; an indented row with a
\* month name; a row with the amount before the date, separated by two
\* spaces; a line without numbers
TableLinePool ==
    { <<"0", "1", "/", "1", "5", "/", "2", "0", "2", "4", "\t", "S", "T", "A", "R",
        "B", "U", "C", "K", "S", "\t", "$", "4", ".", "5", "0">>,
      <<"0", "1", "/", "1", "6", "/", "2", "0", "2", "4", "\t", "$", "2", "0", ".",
        "0", "0">>,
      <<" ", " ", "J", "a", "n", " ", "5", ",", " ", "2", "0", "2", "4", "\t", "U",
        "B", "E", "R", " ", "T", "R", "I", "P", "\t", "1", "2", ".", "0", "0", " ",
        "U", "S", "D">>,
      <<"S", "T", "A", "R", "B", "U", "C", "K", "S", " ", " ", "$", "4", ".", "5", "0",
        " ", " ", "0", "1", "/", "1", "5", "/", "2", "0", "2", "4">>,
      <<"T", "h", "a", "n", "k", " ", "y", "o", "u", " ", "f", "o", "r", " ", "y", "o",
        "u", "r", " ", "p", "a", "y", "m", "e", "n", "t">> }

\* the most lines in such a statement
MaxTableLines == 4

\* the statement text grows by one line of a table
AddTableLine ==
    /\ ex_pc = "idle"
    /\ dd_input = <<>>
    /\ dd_pc = "idle"
    /\ Len(ex_text) < MaxTableLines
    /\ \E line \in TableLinePool : ex_text' = Append(ex_text, line)
    /\ UNCHANGED <<ex_is_tx, ex_candidates, ex_result, ex_pc, dd_input, dd_output, dd_pc>>
    /\ UNCHANGED not_ex_vars

TableNext ==
    \/ AddTableLine
    \/ ExtractTransactions

-----------------------------------------------------------------------------
(* ReminderService._calculate_payoff_time (services/reminder_service.py)    *)
(*                                                                          *)
(* Money is in cents, the monthly rate a fraction; the interest of a month  *)
(* is rounded down to a cent.  The while loop is followed one iteration at  *)
(* a time.                                                                  *)

\* the value returned when the payment does not cover the interest
NeverPaidOff == 999

\* the most iterations of the amortization loop
MaxMonths == 600

\* the arguments of the calls
Balances == {-5, 0, 3, 100, 700}

Payments == {0, 1, 2, 60}

MonthlyRates == {Frac(0, 1), Frac(1, 100), Frac(1, 2)}

\* payment <= balance * monthly_rate
PaymentWithinInterest(balance, payment, monthly_rate) ==
    payment * monthly_rate.den <= balance * monthly_rate.num

\* remaining * monthly_rate
Interest(amount, monthly_rate) == (amount * monthly_rate.num) \div monthly_rate.den

\* a loop condition without the cap on the months
LoopContinuesUncapped(amount, n) == amount > 0

\* while remaining > 0 and months < 600
LoopContinues(amount, n) == amount > 0 /\ n < MaxMonths

PayoffInit ==
    /\ pf_balance = 0
    /\ pf_payment = 0
    /\ pf_rate = Frac(0, 1)
    /\ remaining = 0
    /\ months = 0
    /\ pf_iterations = 0
    /\ pf_result = 0
    /\ total_interest = 0
    /\ pf_pc = "idle"

\* _calculate_payoff_time(balance, payment, monthly_rate) up to the loop
CalculatePayoffTime ==
    /\ pf_pc = "idle"
    /\ \E balance \in Balances, payment \in Payments, monthly_rate \in MonthlyRates :
          /\ pf_balance' = balance
          /\ pf_payment' = payment
          /\ pf_rate' = monthly_rate
          /\ IF PaymentWithinInterest(balance, payment, monthly_rate)
             THEN /\ pf_result' = NeverPaidOff
                  /\ pf_pc' = "returned"
                  /\ UNCHANGED <<remaining, months>>
             ELSE /\ months' = 0
                  /\ remaining' = balance
                  /\ pf_pc' = "loop"
                  /\ UNCHANGED pf_result
    /\ UNCHANGED <<pf_iterations, total_interest>>
    /\ UNCHANGED not_pf_vars

\* one iteration of the while loop
PayoffIterate ==
    /\ pf_pc = "loop"
    /\ LoopContinues(remaining, months)
    /\ remaining' = remaining - (pf_payment - Interest(remaining, pf_rate))
    /\ months' = months + 1
    /\ pf_iterations' = pf_iterations + 1
    /\ UNCHANGED <<pf_balance, pf_payment, pf_rate, pf_result, total_interest, pf_pc>>
    /\ UNCHANGED not_pf_vars

\* the loop ends: return months
PayoffReturn ==
    /\ pf_pc = "loop"
    /\ ~LoopContinues(remaining, months)
    /\ pf_result' = months
    /\ pf_pc' = "returned"
    /\ UNCHANGED <<pf_balance, pf_payment, pf_rate, remaining, months, pf_iterations,
                   total_interest>>
    /\ UNCHANGED not_pf_vars

PayoffNext ==
    \/ CalculatePayoffTime
    \/ PayoffIterate
    \/ PayoffReturn

-----------------------------------------------------------------------------
(* ReminderService._calculate_total_interest (services/reminder_service.py) *)
(*                                                                          *)
(* The arguments and the locals are floats: every product, sum and          *)
(* difference is rounded to the nearest value with MantissaBits significant *)
(* bits, ties to the even mantissa.  A value is an integer number of the    *)
(* smallest positive float; the monthly rate is a fraction with a power of  *)
(* two as denominator.                                                      *)

\* the significant bits of a float (53 in the program's doubles)
MantissaBits == 4

RECURSIVE Ulp(_)
\* the distance between the floats around a value x >= 0
Ulp(x) == IF x < 2 ^ MantissaBits THEN 1 ELSE 2 * Ulp(x \div 2)

\* n / d, n >= 0 and d > 0, rounded to the nearest integer, ties to even
RoundHalfEven(n, d) ==
    IF 2 * (n % d) < d THEN n \div d
    ELSE IF 2 * (n % d) > d THEN n \div d + 1
    ELSE IF (n \div d) % 2 = 0 THEN n \div d
    ELSE n \div d + 1

\* the float nearest to n / d
Float(n, d) ==
    (IF n < 0 THEN -1 ELSE 1)
        * Ulp(Abs(n) \div d) * RoundHalfEven(Abs(n), d * Ulp(Abs(n) \div d))

\* a - b
Minus(a, b) == Float(a - b, 1)

\* a + b
Plus(a, b) == Float(a + b, 1)

\* a * monthly_rate
Times(a, monthly_rate) == Float(a * monthly_rate.num, monthly_rate.den)

\* float('inf')
Infinity == "inf"

\* the arguments of the calls
InterestBalances == {-4, 0, 7, 15, 60, 120}

InterestPayments == {0, 1, 2, 16, 48}

InterestRates == {Frac(0, 1), Frac(1, 4), Frac(1, 2)}

\* _calculate_total_interest(balance, payment, monthly_rate) up to the loop
CalculateTotalInterest ==
    /\ pf_pc = "idle"
    /\ \E balance \in InterestBalances, payment \in InterestPayments,
            monthly_rate \in InterestRates :
          /\ pf_balance' = balance
          /\ pf_payment' = payment
          /\ pf_rate' = monthly_rate
          /\ IF payment <= Times(balance, monthly_rate)
             THEN /\ pf_result' = Infinity
                  /\ pf_pc' = "returned"
                  /\ UNCHANGED <<remaining, total_interest>>
             ELSE /\ total_interest' = 0
                  /\ remaining' = balance
                  /\ pf_pc' = "loop"
                  /\ UNCHANGED pf_result
    /\ UNCHANGED <<months, pf_iterations>>
    /\ UNCHANGED not_pf_vars

\* one iteration of `while remaining > 0`
InterestIterate ==
    /\ pf_pc = "loop"
    /\ remaining > 0
    /\ total_interest' = Plus(total_interest, Times(remaining, pf_rate))
    /\ remaining' = Minus(remaining, Minus(pf_payment, Times(remaining, pf_rate)))
    /\ UNCHANGED <<pf_balance, pf_payment, pf_rate, months, pf_iterations, pf_result, pf_pc>>
    /\ UNCHANGED not_pf_vars

\* the loop ends: return total_interest
InterestReturn ==
    /\ pf_pc = "loop"
    /\ remaining <= 0
    /\ pf_result' = total_interest
    /\ pf_pc' = "returned"
    /\ UNCHANGED <<pf_balance, pf_payment, pf_rate, remaining, months, pf_iterations,
                   total_interest>>
    /\ UNCHANGED not_pf_vars

InterestNext ==
    \/ CalculateTotalInterest
    \/ InterestIterate
    \/ InterestReturn

-----------------------------------------------------------------------------
(* RewardAnalyzer.calculate_interest_charges (services/reward_analyzer.py)  *)
(* beside the two loops of ReminderService, on one balance, payment and     *)
(* monthly rate: the three loops are followed together, one iteration of    *)
(* each at a time.  Money is in cents, the interest of a month rounded down *)
(* to a cent as in SpecPayoff.  An interest is a record: infinite, or an    *)
(* amount.                                                                  *)

Finite(amount) == [infinite |-> FALSE, amount |-> amount]

\* float('inf')
Infinite == [infinite |-> TRUE, amount |-> 0]

\* the arguments of the calls; the payments are positive, as
\* calculate_interest_charges skips the others
ChargeBalances == {0, 3, 100, 700, 100000}

ChargePayments == {1, 2, 60, 1001}

\* one scenario of calculate_interest_charges up to its while loop
ScenarioStart(balance) ==
    [remaining_balance |-> balance, months_to_payoff |-> 0,
     total_interest |-> Finite(0), done |-> FALSE]

\* one iteration of the while loop of the scenario, or its end
ScenarioStep(st, payment_amount, monthly_rate) ==
    IF st.done THEN st
    ELSE IF st.remaining_balance > 0 /\ st.months_to_payoff < MaxMonths
    THEN IF payment_amount - Interest(st.remaining_balance, monthly_rate) <= 0
         THEN [st EXCEPT !.months_to_payoff = MaxMonths,
                         !.total_interest = Infinite,
                         !.done = TRUE]
         ELSE [remaining_balance |->
                   Max(0, st.remaining_balance
                             - (payment_amount - Interest(st.remaining_balance, monthly_rate))),
               months_to_payoff |-> st.months_to_payoff + 1,
               total_interest |->
                   Finite(st.total_interest.amount
                             + Interest(st.remaining_balance, monthly_rate)),
               done |-> FALSE]
    ELSE [st EXCEPT !.done = TRUE]

\* _calculate_payoff_time up to its while loop
PayoffStart(balance, payment, monthly_rate) ==
    IF PaymentWithinInterest(balance, payment, monthly_rate)
    THEN [remaining |-> balance, months |-> NeverPaidOff, done |-> TRUE]
    ELSE [remaining |-> balance, months |-> 0, done |-> FALSE]

\* one iteration of the while loop of _calculate_payoff_time, or its end
PayoffStep(st, payment, monthly_rate) ==
    IF st.done THEN st
    ELSE IF LoopContinues(st.remaining, st.months)
    THEN [remaining |-> st.remaining - (payment - Interest(st.remaining, monthly_rate)),
          months |-> st.months + 1, done |-> FALSE]
    ELSE [st EXCEPT !.done = TRUE]

\* _calculate_total_interest up to its while loop
InterestStart(balance, payment, monthly_rate) ==
    IF PaymentWithinInterest(balance, payment, monthly_rate)
    THEN [remaining |-> balance, total_interest |-> Infinite, done |-> TRUE]
    ELSE [remaining |-> balance, total_interest |-> Finite(0), done |-> FALSE]

\* one iteration of the while loop of _calculate_total_interest, or its end
InterestStep(st, payment, monthly_rate) ==
    IF st.done THEN st
    ELSE IF st.remaining > 0
    THEN [remaining |-> st.remaining - (payment - Interest(st.remaining, monthly_rate)),
          total_interest |->
              Finite(st.total_interest.amount + Interest(st.remaining, monthly_rate)),
          done |-> FALSE]
    ELSE [st EXCEPT !.done = TRUE]

\* the three functions are called on the same arguments
CalculateInterestCharges ==
    /\ pf_pc = "idle"
    /\ \E balance \in ChargeBalances, payment \in ChargePayments,
            monthly_rate \in MonthlyRates :
          /\ pf_balance' = balance
          /\ pf_payment' = payment
          /\ pf_rate' = monthly_rate
          /\ pf_result' = [scenario |-> ScenarioStart(balance),
                           payoff |-> PayoffStart(balance, payment, monthly_rate),
                           interest |-> InterestStart(balance, payment, monthly_rate)]
    /\ pf_pc' = "loop"
    /\ UNCHANGED <<remaining, months, pf_iterations, total_interest>>
    /\ UNCHANGED not_pf_vars

\* each loop that has not ended makes one iteration
ChargesIterate ==
    /\ pf_pc = "loop"
    /\ ~(pf_result.scenario.done /\ pf_result.payoff.done /\ pf_result.interest.done)
    /\ pf_result' = [scenario |-> ScenarioStep(pf_result.scenario, pf_payment, pf_rate),
                     payoff |-> PayoffStep(pf_result.payoff, pf_payment, pf_rate),
                     interest |-> InterestStep(pf_result.interest, pf_payment, pf_rate)]
    /\ UNCHANGED <<pf_balance, pf_payment, pf_rate, remaining, months, pf_iterations,
                   total_interest, pf_pc>>
    /\ UNCHANGED not_pf_vars

\* the three calls have returned
ChargesReturn ==
    /\ pf_pc = "loop"
    /\ pf_result.scenario.done /\ pf_result.payoff.done /\ pf_result.interest.done
    /\ pf_pc' = "returned"
    /\ UNCHANGED <<pf_balance, pf_payment, pf_rate, remaining, months, pf_iterations,
                   pf_result, total_interest>>
    /\ UNCHANGED not_pf_vars

ChargesNext ==
    \/ CalculateInterestCharges
    \/ ChargesIterate
    \/ ChargesReturn

-----------------------------------------------------------------------------
(* EmailParser (services/email_parser.py): parse_email builds email_data,   *)
(* extract_transactions_from_email reads it.  Dates are days; what          *)
(* extract_financial_info found in the body is drawn from a pool.           *)

\* the Date headers of the messages: none ('' by msg.get), one dateparser
\* cannot read, and one it reads as day 15
DateHeaders == {"", "soon", "Mon, 15 Jan 2024"}

\* dateparser.parse on a header
HeaderDate(date_string) == IF date_string = "Mon, 15 Jan 2024" THEN 15 ELSE NoDate

\* parse_date: None for an empty string, otherwise what dateparser returns
parse_date(date_string) == IF date_string # "" THEN HeaderDate(date_string) ELSE NoDate

\* classify_email_type's results
EmailTypes == {"statement", "transaction", "payment", "unknown"}

\* extract_financial_info: a key is present when its list is not empty
NonEmptyItems(info) == [k \in {key \in DOMAIN info : info[key] # <<>>} |-> info[k]]

ExtractedInfos ==
    { NonEmptyItems([amounts |-> a, dates |-> d, merchants |-> m]) :
        a \in {<<>>, <<450>>, <<450, 1200>>},
        d \in {<<>>, <<12>>, <<12, 20>>},
        m \in {<<>>, <<"Starbucks">>} }

\* extract_transactions_from_email(email_data)
extract_transactions_from_email(data) ==
    IF /\ Get(data, "email_type", "") = "transaction"
       /\ Get(Get(data, "extracted_info", <<>>), "amounts", <<>>) # <<>>
    THEN << [amount |-> data.extracted_info.amounts[1],
             date |-> IF Get(data.extracted_info, "dates", <<>>) # <<>>
                      THEN data.extracted_info.dates[1]
                      ELSE Get(data, "parsed_date", NoDate),
             merchant |-> IF Get(data.extracted_info, "merchants", <<>>) # <<>>
                          THEN data.extracted_info.merchants[1] ELSE "Unknown",
             source |-> "email"] >>
    ELSE <<>>

EmailInit ==
    /\ email_data = <<>>
    /\ em_transactions = <<>>
    /\ em_pc = "idle"

\* parse_email(file): 'parsed_date' is set when parse_date returned a date, not None
ParseEmail ==
    /\ em_pc = "idle"
    /\ \E header \in DateHeaders, type \in EmailTypes, info \in ExtractedInfos :
           email_data' =
               IF parse_date(header) # NoDate
               THEN [date |-> header, parsed_date |-> parse_date(header),
                     email_type |-> type, extracted_info |-> info]
               ELSE [date |-> header, email_type |-> type, extracted_info |-> info]
    /\ em_pc' = "parsed"
    /\ UNCHANGED em_transactions
    /\ UNCHANGED not_em_vars

ExtractTransactionsFromEmail ==
    /\ em_pc = "parsed"
    /\ em_transactions' = extract_transactions_from_email(email_data)
    /\ em_pc' = "returned"
    /\ UNCHANGED email_data
    /\ UNCHANGED not_em_vars

EmailNext ==
    \/ ParseEmail
    \/ ExtractTransactionsFromEmail

-----------------------------------------------------------------------------
(* CreditCardReminderApp, ReminderSystem and NotificationSender (main.py).  *)
(* Dates are days; the checks run during the day, after midnight.  The     *)
(* table payments is the list of its rows in order of id.                   *)

\* "reminder_days" of the default configuration
ReminderDays == <<7, 3, 1>>

\* the PaymentInfo the parser makes of the statements in the mailbox
Statements ==
    { [bank_name |-> "chase", card_last_four |-> "1234", due_date |-> 5],
      [bank_name |-> "amex", card_last_four |-> "0005", due_date |-> 9] }

\* the most rows of the table payments
MaxRows == 4

\* the last day
MaxDay == 3

\* the columns that name a payment
PaymentKey(payment) ==
    [bank_name |-> payment.bank_name, card_last_four |-> payment.card_last_four,
     due_date |-> payment.due_date]

\* store_payment: INSERT OR REPLACE without an id adds a row, reminder_sent
\* at its default 0
store_payment(table, payment) ==
    Append(table, [bank_name |-> payment.bank_name,
                   card_last_four |-> payment.card_last_four,
                   due_date |-> payment.due_date,
                   reminder_sent |-> FALSE])

RECURSIVE StoreAll(_, _)
\* for payment in payments: self.reminder_system.store_payment(payment)
StoreAll(table, found) ==
    IF found = <<>> THEN table
    ELSE StoreAll(store_payment(table, Head(found)), Tail(found))

RECURSIVE OrderByDueDate(_)
\* ORDER BY due_date
OrderByDueDate(rows) ==
    IF rows = <<>> THEN <<>>
    ELSE LET first == CHOOSE j \in 1..Len(rows) :
                         /\ \A k \in 1..Len(rows) : rows[j].due_date <= rows[k].due_date
                         /\ \A k \in 1..(j - 1) : rows[k].due_date > rows[j].due_date
         IN  <<rows[first]>> \o
             OrderByDueDate(SubSeq(rows, 1, first - 1) \o SubSeq(rows, first + 1, Len(rows)))

\* get_upcoming_payments(days_ahead): WHERE due_date <= cutoff AND
\* reminder_sent = 0
get_upcoming_payments(table, now, days_ahead) ==
    OrderByDueDate(SelectSeq(table, LAMBDA row :
        row.due_date <= now + days_ahead /\ ~row.reminder_sent))

\* mark_reminder_sent: UPDATE ... WHERE bank_name = ? AND card_last_four = ?
\* AND due_date = ?
mark_reminder_sent(table, payment) ==
    [i \in 1..Len(table) |->
        IF PaymentKey(table[i]) = PaymentKey(payment)
        THEN [table[i] EXCEPT !.reminder_sent = TRUE]
        ELSE table[i]]

\* (payment.due_date - datetime.now()).days
DaysUntilDue(payment, now) == payment.due_date - now - 1

\* send_email_reminder: the message is delivered, or an exception is caught
\* and printed
send_email_reminder(log, payment, accepted) ==
    IF accepted THEN Append(log, PaymentKey(payment)) ELSE log

\* the body of `for payment in payments`; st.sends counts the calls of
\* send_email_reminder
RemindOne(st, payment, now, days_ahead, smtp) ==
    IF DaysUntilDue(payment, now) <= days_ahead
    THEN [table |-> mark_reminder_sent(st.table, payment),
          log   |-> send_email_reminder(st.log, payment, smtp[st.sends + 1]),
          sends |-> st.sends + 1]
    ELSE st

RECURSIVE RemindAll(_, _, _, _, _)
RemindAll(st, upcoming, now, days_ahead, smtp) ==
    IF upcoming = <<>> THEN st
    ELSE RemindAll(RemindOne(st, Head(upcoming), now, days_ahead, smtp),
                   Tail(upcoming), now, days_ahead, smtp)

RECURSIVE check_and_send_reminders(_, _, _, _)
\* for days_ahead in self.config['reminder_days']
check_and_send_reminders(st, reminder_days, now, smtp) ==
    IF reminder_days = <<>> THEN st
    ELSE check_and_send_reminders(
             RemindAll(st, get_upcoming_payments(st.table, now, Head(reminder_days)),
                       now, Head(reminder_days), smtp),
             Tail(reminder_days), now, smtp)

AppInit ==
    /\ inbox = <<>>
    /\ payments = <<>>
    /\ delivered = <<>>
    /\ today = 0

\* a statement arrives in the mailbox
ReceiveStatement ==
    /\ \E statement \in Statements :
           /\ statement \notin Range(inbox)
           /\ inbox' = Append(inbox, statement)
    /\ UNCHANGED <<payments, delivered, today>>
    /\ UNCHANGED not_app_vars

\* scan_and_store_payments()
ScanAndStorePayments ==
    /\ inbox # <<>>
    /\ Len(payments) + Len(inbox) <= MaxRows
    /\ payments' = StoreAll(payments, inbox)
    /\ UNCHANGED <<inbox, delivered, today>>
    /\ UNCHANGED not_app_vars

\* check_and_send_reminders(); smtp[k] tells whether the k-th message of the
\* run is accepted
CheckAndSendReminders ==
    /\ \E smtp \in [1..MaxRows -> BOOLEAN] :
           LET done == check_and_send_reminders(
                           [table |-> payments, log |-> delivered, sends |-> 0],
                           ReminderDays, today, smtp)
           IN  /\ payments' = done.table
               /\ delivered' = done.log
    /\ UNCHANGED <<inbox, today>>
    /\ UNCHANGED not_app_vars

\* a day passes
NextDay ==
    /\ today < MaxDay
    /\ today' = today + 1
    /\ UNCHANGED <<inbox, payments, delivered>>
    /\ UNCHANGED not_app_vars

AppNext ==
    \/ ReceiveStatement
    \/ ScanAndStorePayments
    \/ CheckAndSendReminders
    \/ NextDay

-----------------------------------------------------------------------------
(* ReminderService.create_payment_reminder and mark_reminder_sent           *)
(* (services/reminder_service.py) over the table payment_reminders, the     *)
(* list of its rows in order of id.  A due date is the str of the           *)
(* CreditCard row, '' when the card has none.                               *)

\* the ids of the CreditCard rows
Cards == {1, 2}

\* the due dates update_credit_card_info writes
DueDates == {"2024-02-05", "2024-03-05"}

\* the most rows of payment_reminders
MaxReminders == 3

\* the unsent reminders of a card and a due date, by id
ExistingReminders(table, card, due_date) ==
    SelectSeq(table, LAMBDA row :
        row.credit_card_id = card /\ row.due_date = due_date /\ ~row.reminder_sent)

\* a create_payment_reminder that never looks for an existing reminder
create_payment_reminder_anew(table, card, due_date) ==
    IF due_date = "" THEN [table |-> table, result |-> <<>>]
    ELSE [table |-> Append(table, [id |-> Len(table) + 1, credit_card_id |-> card,
                                   due_date |-> due_date, reminder_sent |-> FALSE]),
          result |-> <<[id |-> Len(table) + 1, credit_card_id |-> card,
                        due_date |-> due_date, reminder_sent |-> FALSE]>>]

\* create_payment_reminder(credit_card, db): the table afterwards and the
\* value returned, <<>> for None
create_payment_reminder(table, card, due_date) ==
    IF due_date = "" THEN [table |-> table, result |-> <<>>]
    ELSE IF ExistingReminders(table, card, due_date) # <<>>
    THEN [table |-> table, result |-> <<Head(ExistingReminders(table, card, due_date))>>]
    ELSE [table |-> Append(table, [id |-> Len(table) + 1, credit_card_id |-> card,
                                   due_date |-> due_date, reminder_sent |-> FALSE]),
          result |-> <<[id |-> Len(table) + 1, credit_card_id |-> card,
                        due_date |-> due_date, reminder_sent |-> FALSE]>>]

ReminderServiceInit ==
    /\ credit_cards = [card \in Cards |-> ""]
    /\ payment_reminders = <<>>
    /\ rm_returned = [card |-> 0, result |-> <<>>]

\* update_credit_card_info found a due date in a statement
UpdateCreditCardInfo ==
    /\ \E card \in Cards, due_date \in DueDates :
           credit_cards' = [credit_cards EXCEPT ![card] = due_date]
    /\ UNCHANGED <<payment_reminders, rm_returned>>
    /\ UNCHANGED not_rm_vars

CreatePaymentReminder ==
    /\ \E card \in Cards :
           /\ Len(create_payment_reminder(payment_reminders, card, credit_cards[card]).table)
                  <= MaxReminders
           /\ payment_reminders' =
                  create_payment_reminder(payment_reminders, card, credit_cards[card]).table
           /\ rm_returned' =
                  [card |-> card,
                   result |-> create_payment_reminder(payment_reminders, card,
                                                      credit_cards[card]).result]
    /\ UNCHANGED credit_cards
    /\ UNCHANGED not_rm_vars

\* mark_reminder_sent(reminder_id, db), for an id that exists or not
MarkReminderSent ==
    /\ \E reminder_id \in 1..MaxReminders :
           payment_reminders' =
               [i \in 1..Len(payment_reminders) |->
                   IF payment_reminders[i].id = reminder_id
                   THEN [payment_reminders[i] EXCEPT !.reminder_sent = TRUE]
                   ELSE payment_reminders[i]]
    /\ UNCHANGED <<credit_cards, rm_returned>>
    /\ UNCHANGED not_rm_vars

ReminderServiceNext ==
    \/ UpdateCreditCardInfo
    \/ CreatePaymentReminder
    \/ MarkReminderSent

-----------------------------------------------------------------------------
(* One TransactionCategorizer and one AnomalyDetector over several calls    *)
(*                                                                          *)
(* The objects an instance keeps between calls are followed: the            *)
(* TfidfVectorizer, the StandardScaler and the IsolationForest, each known  *)
(* by the data it was last fit on.  What a fitted object returns is not     *)
(* computed; it is a function of the fit and the query (the forest is built *)
(* with random_state=42), which lc_library records as the calls are made.   *)

\* an object that was never fit
Unfitted == <<>>

\* all_texts of _ml_matching: the keyword text of every category but 'Other',
\* then the transaction's text
AllTexts(cats, text) ==
    <<>> \o [i \in 1..Len(SelectSeq(cats, LAMBDA c : c.name # "Other")) |->
                JoinWithSpace(SelectSeq(cats, LAMBDA c : c.name # "Other")[i].keywords)]
         \o <<text>>

\* a similarity stage that fits the vectorizer once and reuses that fit
VectorizerKept(fitted, all_texts) == IF fitted = Unfitted THEN all_texts ELSE fitted

\* self.vectorizer.fit_transform(all_texts): the fit the stage works with
VectorizerInUse(fitted, all_texts) == all_texts

\* self.scaler.fit_transform(features)
ScalerInUse(fitted, features) == features

\* self.isolation_forest.fit_predict(features_scaled)
ForestInUse(fitted, features_scaled) == features_scaled

\* the transactions and batches of the calls
LifecycleTransactions ==
    {t \in TransactionPool :
        t.merchant \in {<<"C","a","m","p","u","s">>, <<"G","l","o","w">>,
                        <<"X","Y","Z"," ","C","o","r","p">>}}

RegularBatch(n) == <<>> \o [i \in 1..n |-> RegularPurchase(i - 1)]

BatchPool ==
    { RegularBatch(MinBatch - 1),
      Append(RegularBatch(MlMinBatch),
             CHOOSE t \in ExtraPurchases(MlMinBatch, 0) : t.description = "big"),
      Append(RegularBatch(MlMinBatch),
             CHOOSE t \in ExtraPurchases(MlMinBatch, 0) : t.description = "odd") }

\* the most calls made on the two instances
MaxCalls == 2

\* the library returns for a (fit, query) what it returned for it before
Recalled(library, key, outcome) == key \in DOMAIN library => library[key] = outcome

Recorded(f, key, value) ==
    [k \in DOMAIN f \cup {key} |-> IF k \in DOMAIN f THEN f[k] ELSE value]

LifecycleInit ==
    /\ lc_vectorizer = Unfitted
    /\ lc_scaler = Unfitted
    /\ lc_forest = Unfitted
    /\ lc_library = <<>>
    /\ lc_last = [call |-> <<>>, result |-> <<>>, fresh |-> <<>>, refit |-> FALSE]
    /\ lc_calls = 0

\* the bookkeeping of a call: its result, the result of the same call on an
\* instance just constructed, and whether an object fit on other data was
\* fit again
Called(call, result, fresh, refit) ==
    /\ lc_last' = [call |-> call, result |-> result, fresh |-> fresh, refit |-> refit]
    /\ lc_calls' = lc_calls + 1

\* the similarity stage of the instance and of a new instance on the same
\* text: the fit each works with, and what the library returned to each
SimilarityStage(t, o, fresh) ==
    /\ lc_vectorizer' =
           VectorizerInUse(lc_vectorizer,
               AllTexts(InitialCategories, extract_text_for_analysis(t)))
    /\ Recalled(lc_library, <<lc_vectorizer', t>>, o.stages.ml)
    /\ lc_library' =
           Recorded(lc_library, <<lc_vectorizer', t>>, o.stages.ml)
    /\ Recalled(lc_library',
                <<VectorizerInUse(Unfitted,
                      AllTexts(InitialCategories, extract_text_for_analysis(t))), t>>,
                fresh.stages.ml)

\* categorize_single_transaction(t) on the instance, no spaCy model loaded
CategorizeSingle ==
    /\ lc_calls < MaxCalls
    /\ \E t \in LifecycleTransactions :
       \E o, fresh \in categorize_single_transaction(t, InitialCategories, FALSE) :
          IF o.stages.ml = NotRun
          THEN /\ Called(<<"categorize", t>>, o.result, fresh.result, FALSE)
               /\ UNCHANGED <<lc_vectorizer, lc_library>>
          ELSE /\ SimilarityStage(t, o, fresh)
               /\ Called(<<"categorize", t>>, o.result, fresh.result,
                         lc_vectorizer \notin {Unfitted, lc_vectorizer'})
    /\ UNCHANGED <<lc_scaler, lc_forest>>
    /\ UNCHANGED not_lc_vars

\* _detect_ml_anomalies of the instance and of a new instance on the same
\* batch: the fits each works with, and what the library returned to each
OutlierStage(batch, ml, fresh) ==
    /\ lc_scaler' = ScalerInUse(lc_scaler, batch)
    /\ lc_forest' = ForestInUse(lc_forest, <<lc_scaler', batch>>)
    /\ Recalled(lc_library, <<lc_forest', batch>>, ml)
    /\ lc_library' = Recorded(lc_library, <<lc_forest', batch>>, ml)
    /\ Recalled(lc_library',
                <<ForestInUse(Unfitted, <<ScalerInUse(Unfitted, batch), batch>>), batch>>,
                fresh)

\* what detect_anomalies returns on a batch of more than 20 rows
DetectResult(batch, ml) ==
    deduplicate_anomalies(
        StatisticalFindings(prepare_dataframe(batch))
            \o detect_ml_anomalies(prepare_dataframe(batch), ml))

\* detect_anomalies(batch) on the instance
DetectAnomalies ==
    /\ lc_calls < MaxCalls
    /\ \E batch \in BatchPool :
          IF TooSmall(batch)
          THEN /\ Called(<<"detect", batch>>, <<>>, <<>>, FALSE)
               /\ UNCHANGED <<lc_scaler, lc_forest, lc_library>>
          ELSE IF ~(Len(batch) > MlMinBatch)
          THEN /\ Called(<<"detect", batch>>,
                         deduplicate_anomalies(
                             StatisticalFindings(prepare_dataframe(batch))),
                         deduplicate_anomalies(
                             StatisticalFindings(prepare_dataframe(batch))), FALSE)
               /\ UNCHANGED <<lc_scaler, lc_forest, lc_library>>
          ELSE \E ml, fresh \in MlOutcomes(prepare_dataframe(batch)) :
               /\ OutlierStage(batch, ml, fresh)
               /\ Called(<<"detect", batch>>, DetectResult(batch, ml),
                         DetectResult(batch, fresh),
                         lc_forest \notin {Unfitted, lc_forest'})
    /\ UNCHANGED lc_vectorizer
    /\ UNCHANGED not_lc_vars

LifecycleNext ==
    \/ CategorizeSingle
    \/ DetectAnomalies

-----------------------------------------------------------------------------
(* Specifications                                                           *)

vars == <<ad_vars, ct_vars, ex_vars, pf_vars, lc_vars, em_vars, app_vars, rm_vars>>

\* the components a specification leaves alone
AnomalyIdle ==
    /\ transactions = <<>>
    /\ pooled = <<>>
    /\ anomalies = <<>>
    /\ ran = {}
    /\ ml_run = NoMl
    /\ ad_pc = "idle"

CategorizerIdle ==
    /\ categories = <<>>
    /\ nlp = FALSE
    /\ rules_added = 0
    /\ cat_input = <<>>
    /\ cat_txs = <<>>
    /\ cat_returned = <<>>
    /\ cat_stages = <<>>
    /\ ct_pc = "idle"

ExtractorIdle ==
    /\ ex_text = <<>>
    /\ ex_is_tx = <<>>
    /\ ex_candidates = <<>>
    /\ ex_result = <<>>
    /\ ex_pc = "idle"
    /\ dd_input = <<>>
    /\ dd_output = <<>>
    /\ dd_pc = "idle"

PayoffIdle ==
    /\ pf_balance = 0
    /\ pf_payment = 0
    /\ pf_rate = Frac(0, 1)
    /\ remaining = 0
    /\ months = 0
    /\ pf_iterations = 0
    /\ pf_result = 0
    /\ total_interest = 0
    /\ pf_pc = "idle"

EmailIdle ==
    /\ email_data = <<>>
    /\ em_transactions = <<>>
    /\ em_pc = "idle"

AppIdle ==
    /\ inbox = <<>>
    /\ payments = <<>>
    /\ delivered = <<>>
    /\ today = 0

ReminderServiceIdle ==
    /\ credit_cards = <<>>
    /\ payment_reminders = <<>>
    /\ rm_returned = [card |-> 0, result |-> <<>>]

LifecycleIdle ==
    /\ lc_vectorizer = Unfitted
    /\ lc_scaler = Unfitted
    /\ lc_forest = Unfitted
    /\ lc_library = <<>>
    /\ lc_last = [call |-> <<>>, result |-> <<>>, fresh |-> <<>>, refit |-> FALSE]
    /\ lc_calls = 0

InitAnomaly ==
    AnomalyInit /\ CategorizerIdle /\ ExtractorIdle /\ PayoffIdle /\ LifecycleIdle
        /\ EmailIdle /\ AppIdle /\ ReminderServiceIdle

SpecAnomaly == InitAnomaly /\ [][AnomalyNext]_vars

InitCategorizer ==
    CategorizerInit /\ AnomalyIdle /\ ExtractorIdle /\ PayoffIdle /\ LifecycleIdle
        /\ EmailIdle /\ AppIdle /\ ReminderServiceIdle

SpecCategorizer == InitCategorizer /\ [][CategorizerNext]_vars

InitFixture ==
    FixtureInit /\ AnomalyIdle /\ ExtractorIdle /\ PayoffIdle /\ LifecycleIdle
        /\ EmailIdle /\ AppIdle /\ ReminderServiceIdle

SpecFixture == InitFixture /\ [][FixtureNext]_vars

SpecRecurring == InitCategorizer /\ [][RecurringNext]_vars

InitExtractor ==
    ExtractorInit /\ AnomalyIdle /\ CategorizerIdle /\ PayoffIdle /\ LifecycleIdle
        /\ EmailIdle /\ AppIdle /\ ReminderServiceIdle

SpecExtractor == InitExtractor /\ [][ExtractorNext]_vars

SpecTable == InitExtractor /\ [][TableNext]_vars

InitPayoff ==
    PayoffInit /\ AnomalyIdle /\ CategorizerIdle /\ ExtractorIdle /\ LifecycleIdle
        /\ EmailIdle /\ AppIdle /\ ReminderServiceIdle

InitAmounts ==
    AmountsInit /\ CategorizerIdle /\ ExtractorIdle /\ PayoffIdle /\ LifecycleIdle
        /\ EmailIdle /\ AppIdle /\ ReminderServiceIdle

SpecAmounts == InitAmounts /\ [][AmountsNext]_vars

InitLifecycle ==
    LifecycleInit /\ AnomalyIdle /\ CategorizerIdle /\ ExtractorIdle /\ PayoffIdle
        /\ EmailIdle /\ AppIdle /\ ReminderServiceIdle

SpecLifecycle == InitLifecycle /\ [][LifecycleNext]_vars

SpecPayoff == InitPayoff /\ [][PayoffNext]_vars

SpecInterest == InitPayoff /\ [][InterestNext]_vars

SpecCharges == InitPayoff /\ [][ChargesNext]_vars

InitEmail ==
    EmailInit /\ AnomalyIdle /\ CategorizerIdle /\ ExtractorIdle /\ PayoffIdle
        /\ LifecycleIdle /\ AppIdle /\ ReminderServiceIdle

SpecEmail == InitEmail /\ [][EmailNext]_vars

InitApp ==
    AppInit /\ AnomalyIdle /\ CategorizerIdle /\ ExtractorIdle /\ PayoffIdle
        /\ LifecycleIdle /\ EmailIdle /\ ReminderServiceIdle

SpecApp == InitApp /\ [][AppNext]_vars

InitReminderService ==
    ReminderServiceInit /\ AnomalyIdle /\ CategorizerIdle /\ ExtractorIdle /\ PayoffIdle
        /\ LifecycleIdle /\ EmailIdle /\ AppIdle

SpecReminderService == InitReminderService /\ [][ReminderServiceNext]_vars

-----------------------------------------------------------------------------
(* Claims about AnomalyDetector                                             *)

\* C1: the list detect_anomalies returns holds at most one anomaly per
\* transaction_id; each kept anomaly is one of the pooled findings, every
\* flagged transaction_id keeps one, and the kept anomaly's score is at least
\* the score of every finding pooled for that transaction_id.
C1_HighestScorePerTransaction ==
    ad_pc = "returned" =>
        /\ \A i, j \in 1..Len(anomalies) :
               anomalies[i].transaction_id = anomalies[j].transaction_id => i = j
        /\ Range(anomalies) \subseteq Range(pooled)
        /\ \A f \in Range(pooled) :
               \E a \in Range(anomalies) :
                   /\ a.transaction_id = f.transaction_id
                   /\ a.score >= f.score

\* a returned batch in which two detectors flagged one transaction with
\* different scores, the lower one pooled first
C1_Witness ==
    /\ ad_pc = "returned"
    /\ \E i, j \in 1..Len(pooled) :
           /\ i < j
           /\ pooled[i].transaction_id = pooled[j].transaction_id
           /\ pooled[i].anomaly_type # pooled[j].anomaly_type
           /\ pooled[i].score < pooled[j].score

\* C2: for every batch of fewer than 10 transactions detect_anomalies
\* returns the empty list and has run no detector.
C2_SmallBatchReturnsNothing ==
    (ad_pc = "returned" /\ Len(transactions) < 10) =>
        (anomalies = <<>> /\ pooled = <<>> /\ ran = {})

\* detect_anomalies has returned on a batch of exactly 9 transactions, some
\* of them out of the ordinary
C2_Witness ==
    /\ ad_pc = "returned"
    /\ Len(transactions) = 9
    /\ NumExtras(transactions) > 0

\* C10: every anomaly detect_anomalies returns has a score in [0, 1].
C10_ScoresInUnitInterval ==
    ad_pc = "returned" =>
        \A a \in Range(anomalies) : 0 <= a.score /\ a.score <= ScoreOne

\* a returned list with an ml_anomaly, a capped and a computed score
C10_Witness ==
    /\ ad_pc = "returned"
    /\ \E a \in Range(anomalies) : a.anomaly_type = "ml_anomaly"
    /\ \E a \in Range(anomalies) : a.anomaly_type = "amount_outlier" /\ a.score = ScoreOne
    /\ \E a \in Range(anomalies) :
           a.anomaly_type \in {"amount_outlier", "frequency_anomaly"}
           /\ a.score > 0 /\ a.score < ScoreOne

\* C11: every anomaly detect_anomalies returns carries an anomaly_type that
\* is a key of the detector's own table self.anomaly_types: every type a
\* detector emits is one the detector declares.
C11_TypesAreDeclared ==
    ad_pc = "returned" =>
        \A a \in Range(anomalies) : a.anomaly_type \in anomaly_types

\* the rows of a batch at an hour of day that fewer than 5% of its rows use
UnusualHourRows(txs) ==
    {i \in 1..Len(txs) :
        20 * Cardinality({j \in 1..Len(txs) :
                             (txs[j].date % 1440) \div 60 = (txs[i].date % 1440) \div 60})
            < Len(txs)}

\* C21: the time detector flags, with score 0.7, exactly the transactions at
\* an unusual hour whose time of day is before 06:00 or after 23:00.
C21_LateAndEarlyHoursFlagged ==
    ad_pc = "returned" /\ "time" \in ran =>
        /\ {pooled[k].row : k \in {j \in 1..Len(pooled) :
                                      pooled[j].anomaly_type = "time_anomaly"}}
               = {i \in UnusualHourRows(transactions) :
                     \/ transactions[i].date % 1440 < 6 * 60
                     \/ transactions[i].date % 1440 > 23 * 60}
        /\ \A k \in 1..Len(pooled) :
               pooled[k].anomaly_type = "time_anomaly" => pooled[k].score = 70

\* C15: a detect_anomalies call whose unsupervised stage fails raises
\* nothing; it returns the findings of the seven statistical detectors,
\* deduplicated, and no ml_anomaly.
C15_MlFailureIsSwallowed ==
    /\ ad_pc # "raised"
    /\ (ad_pc = "returned" /\ "ml" \in ran /\ ml_run.failed) =>
           /\ Len(transactions) > 20
           /\ Range(StatisticalDetectors) \subseteq ran
           /\ pooled = StatisticalFindings(prepare_dataframe(transactions))
           /\ \A a \in Range(anomalies) : a.anomaly_type # "ml_anomaly"
           /\ Range(anomalies) \subseteq Range(pooled)
           /\ \A f \in Range(pooled) :
                  \E a \in Range(anomalies) :
                      a.transaction_id = f.transaction_id /\ a.score >= f.score
           /\ \A i, j \in 1..Len(anomalies) :
                  i < j => /\ anomalies[i].transaction_id # anomalies[j].transaction_id
                           /\ anomalies[i].score >= anomalies[j].score

\* the unsupervised stage failed on a batch of more than 20 transactions and
\* the call returned what the statistical detectors had found
C15_Witness ==
    /\ ad_pc = "returned"
    /\ "ml" \in ran
    /\ ml_run.failed
    /\ Len(transactions) > 20
    /\ anomalies # <<>>

\* 4 * (the quartile k/4 of a sorted list), by linear interpolation between
\* the two nearest ranks
Quartile4(sorted, k) ==
    4 * sorted[((Len(sorted) - 1) * k) \div 4 + 1]
    + (((Len(sorted) - 1) * k) % 4)
      * (sorted[Min(((Len(sorted) - 1) * k) \div 4 + 2, Len(sorted))]
         - sorted[((Len(sorted) - 1) * k) \div 4 + 1])

\* the rows of a batch whose amount is below Q1 - 3*IQR or above Q3 + 3*IQR
OutsideFences(txs, sorted) ==
    {i \in 1..Len(txs) :
        \/ 4 * txs[i].amount
               > Quartile4(sorted, 3) + 3 * (Quartile4(sorted, 3) - Quartile4(sorted, 1))
        \/ 4 * txs[i].amount
               < Quartile4(sorted, 1) - 3 * (Quartile4(sorted, 3) - Quartile4(sorted, 1))}

BatchOutliers == OutsideFences(transactions, SortAsc(Amounts(transactions)))

AmountOutlierRows(findings) ==
    {findings[j].row : j \in {k \in 1..Len(findings) :
                                 findings[k].anomaly_type = "amount_outlier"}}

\* C19: on a batch of at least 10 transactions the amount detector flags
\* exactly the transactions whose amount is below Q1 - 3*IQR or above
\* Q3 + 3*IQR, once each; when a batch of 10 has one such transaction,
\* detect_anomalies reports that one, and no other, as amount_outlier.
C19_AmountOutliersAreTheRowsOutsideFences ==
    ad_pc = "returned" /\ Len(transactions) >= 10 =>
        /\ AmountOutlierRows(pooled) = BatchOutliers
        /\ Cardinality({k \in 1..Len(pooled) : pooled[k].anomaly_type = "amount_outlier"})
               = Cardinality(BatchOutliers)
        /\ Len(transactions) = 10 /\ Cardinality(BatchOutliers) = 1 =>
               AmountOutlierRows(anomalies) = BatchOutliers

\* a batch of 10 purchases between $4 and $6 and one of $30 at a merchant
\* never seen before: the $30 purchase alone is reported, as amount_outlier
C19_Witness ==
    /\ ad_pc = "returned"
    /\ Len(transactions) = 10
    /\ \A i \in 1..9 : transactions[i].amount \in 8..12
    /\ transactions[10].amount = 60
    /\ transactions[10].merchant = "NEWSHOP"
    /\ Len(anomalies) = 1
    /\ anomalies[1].row = 10
    /\ anomalies[1].anomaly_type = "amount_outlier"

-----------------------------------------------------------------------------
(* Claims about TransactionCategorizer                                      *)

\* C3: categorize_single_transaction runs the stages in the order keyword,
\* pattern, NLP-entity (only when a language model is loaded), similarity;
\* it returns the result of the first stage whose confidence exceeds its own
\* threshold (0.8, 0.7, 0.6, 0.5) and runs no later stage; a stage that does
\* not exceed its threshold leaves the result to the later stages, and when
\* none exceeds its threshold the result is the fixed fallback.
C3_FirstClearingStageWins ==
    LET done == IF ct_pc = "raised" THEN Len(cat_stages) - 1 ELSE Len(cat_stages)
    IN  \A i \in 1..done :
            LET st == cat_stages[i]
                r  == [category |-> cat_txs[i].category,
                       subcategory |-> cat_txs[i].subcategory,
                       confidence |-> cat_txs[i].confidence_score]
            IN  /\ st.keyword # NotRun
                /\ IF Gt(st.keyword.confidence, Frac(8, 10))
                   THEN r = st.keyword /\ st.pattern = NotRun
                        /\ st.nlp = NotRun /\ st.ml = NotRun
                   ELSE /\ st.pattern # NotRun
                        /\ IF Gt(st.pattern.confidence, Frac(7, 10))
                           THEN r = st.pattern /\ st.nlp = NotRun /\ st.ml = NotRun
                           ELSE /\ (st.nlp # NotRun) <=> nlp
                                /\ IF Gt(st.nlp.confidence, Frac(6, 10))
                                   THEN r = st.nlp /\ st.ml = NotRun
                                   ELSE /\ st.ml # NotRun
                                        /\ IF Gt(st.ml.confidence, Frac(5, 10))
                                           THEN r = st.ml
                                           ELSE /\ r.category = "Other"
                                                /\ r.subcategory = "Miscellaneous"
                                                /\ r.confidence.num * 10
                                                     = 3 * r.confidence.den

\* a returned list with a transaction whose keyword stage stayed below 0.8,
\* whose similarity stage won with a lower confidence than the keyword stage
\* had, and whose result is the similarity stage's and not the keyword stage's
C3_Witness ==
    /\ ct_pc = "returned"
    /\ \E i \in 1..Len(cat_stages) :
           LET st == cat_stages[i]
           IN  /\ ~Gt(st.keyword.confidence, Frac(8, 10))
               /\ Gt(st.ml.confidence, Frac(5, 10))
               /\ Gt(st.keyword.confidence, st.ml.confidence)
               /\ cat_txs[i].confidence_score = st.ml.confidence
               /\ cat_txs[i].category = st.ml.category
               /\ cat_txs[i].category # st.keyword.category

\* C4: when no stage exceeds its threshold the result is exactly
\* ('Other', 'Miscellaneous', 0.3), and a result with a confidence of 0.3 or
\* lower comes from no other path.
C4_FallbackIsOtherMiscellaneous ==
    LET done == IF ct_pc = "raised" THEN Len(cat_stages) - 1 ELSE Len(cat_stages)
    IN  \A i \in 1..done :
            LET st == cat_stages[i]
                none == /\ ~Gt(st.keyword.confidence, Frac(8, 10))
                        /\ ~Gt(st.pattern.confidence, Frac(7, 10))
                        /\ ~Gt(st.nlp.confidence, Frac(6, 10))
                        /\ ~Gt(st.ml.confidence, Frac(5, 10))
                conf == cat_txs[i].confidence_score
            IN  /\ none => /\ cat_txs[i].category = "Other"
                           /\ cat_txs[i].subcategory = "Miscellaneous"
                           /\ conf.num * 10 = 3 * conf.den
                /\ ~Gt(conf, Frac(3, 10)) => none

\* a returned list with a transaction no keyword and no pattern matched, and
\* one whose similarity stage passed its 0.3 gate but not the 0.5 threshold;
\* both carry the fallback
C4_Witness ==
    /\ ct_pc = "returned"
    /\ \E i, j \in 1..Len(cat_stages) :
           /\ cat_stages[i].keyword.confidence.num = 0
           /\ cat_stages[i].pattern.confidence.num = 0
           /\ cat_txs[i].category = "Other"
           /\ Gt(cat_stages[j].ml.confidence, Frac(3, 10))
           /\ ~Gt(cat_stages[j].ml.confidence, Frac(5, 10))
           /\ cat_txs[j].category = "Other"
           /\ cat_txs[j].confidence_score = Frac(3, 10)

\* C5: when categorize_transactions has returned, the returned list is the
\* input list: as many transactions, in the same order, each with the fields
\* it had and with exactly the three keys category, subcategory and
\* confidence_score added, the category one of the table's, the confidence
\* in [0, 1].
C5_EveryTransactionAnnotated ==
    ct_pc = "returned" =>
        /\ cat_returned = cat_txs
        /\ Len(cat_returned) = Len(cat_input)
        /\ \A i \in 1..Len(cat_input) :
               LET t == cat_returned[i]
               IN  /\ DOMAIN t = DOMAIN cat_input[i] \cup
                                    {"category", "subcategory", "confidence_score"}
                   /\ \A k \in DOMAIN cat_input[i] : t[k] = cat_input[i][k]
                   /\ \E c \in 1..Len(categories) :
                          /\ categories[c].name = t.category
                          /\ t.subcategory \in Range(categories[c].subcategories)
                   /\ t.confidence_score.den > 0
                   /\ 0 <= t.confidence_score.num
                   /\ t.confidence_score.num <= t.confidence_score.den

\* a returned list of two different transactions categorized by different
\* stages, one of them by the keyword stage
C5_Witness ==
    /\ ct_pc = "returned"
    /\ Len(cat_returned) = 2
    /\ cat_input[1] # cat_input[2]
    /\ cat_returned[1].category # cat_returned[2].category
    /\ \E i \in 1..2 : cat_stages[i].pattern = NotRun
    /\ \E i \in 1..2 : cat_stages[i].ml # NotRun

\* C12: every add_custom_rule call appends its pattern to the end of the
\* pattern list of the category it names, which it first creates at the end
\* of the table, with no keyword, when the table has no such category; the
\* categories already in the table keep their positions and keywords, and
\* every category but the named one keeps its pattern list.
C12_RuleOnlyAppends ==
    [][rules_added' # rules_added =>
        \E rule \in RulePool :
            LET n == Len(categories)
                known == \E i \in 1..n : categories[i].name = rule.category
            IN  /\ Len(categories') = IF known THEN n ELSE n + 1
                /\ \A i \in 1..n :
                       /\ categories'[i].name = categories[i].name
                       /\ categories'[i].keywords = categories[i].keywords
                       /\ categories'[i].patterns =
                              IF categories[i].name = rule.category
                              THEN Append(categories[i].patterns, rule.pattern)
                              ELSE categories[i].patterns
                /\ ~known =>
                       /\ categories'[n + 1].name = rule.category
                       /\ categories'[n + 1].keywords = <<>>
                       /\ categories'[n + 1].patterns = <<rule.pattern>>]_vars

\* two rules were registered one after the other: one made a new category,
\* the last in the table, the other extended the patterns of 'Shopping'
C12_Witness ==
    /\ rules_added = 2
    /\ Len(categories) = Len(InitialCategories) + 1
    /\ categories[Len(categories)].name = "Coffee"
    /\ \E i \in 1..Len(InitialCategories) :
           /\ categories[i].name = "Shopping"
           /\ Len(categories[i].patterns) = Len(InitialCategories[i].patterns) + 1

\* C13 as stated: a transaction whose text holds at least 80% of the
\* 'Food & Dining' keywords and matches a 'Shopping' pattern, and the merchant
\* 'Pizza Hut Restaurant Dining', are categorized 'Food & Dining' by the
\* keyword stage (no later stage runs) with a confidence above 0.8.
C13_KeywordStageDecides ==
    LET done == IF ct_pc = "raised" THEN Len(cat_stages) - 1 ELSE Len(cat_stages)
    IN  \A i \in 1..done :
            LET text == Lower(JoinWithSpace(
                            (IF "merchant" \in DOMAIN cat_input[i]
                             THEN <<cat_input[i].merchant>> ELSE <<>>) \o
                            (IF "description" \in DOMAIN cat_input[i]
                             THEN <<cat_input[i].description>> ELSE <<>>) \o
                            (IF "raw_text" \in DOMAIN cat_input[i]
                             THEN <<cat_input[i].raw_text>> ELSE <<>>)))
                food == categories[1].keywords
                held == Cardinality({k \in 1..Len(food) : IsSubstring(food[k], text)})
                shopping == \E p \in {<<"a","m","a","z","o","n">>,
                                       <<"w","a","l","m","a","r","t">>,
                                       <<"t","a","r","g","e","t">>} : IsSubstring(p, text)
                pizzaHut == text = <<"p","i","z","z","a"," ","h","u","t"," ","r","e","s",
                                     "t","a","u","r","a","n","t"," ","d","i","n","i","n","g">>
            IN  ((10 * held >= 8 * Len(food) /\ shopping) \/ pizzaHut) =>
                    /\ cat_txs[i].category = "Food & Dining"
                    /\ cat_stages[i].pattern = NotRun
                    /\ Gt(cat_txs[i].confidence_score, Frac(8, 10))

\* C13 amended: a transaction whose text holds more than 80% of the
\* 'Food & Dining' keywords, no larger share of another category's keywords,
\* and a 'Shopping' pattern is categorized 'Food & Dining' by the keyword
\* stage with that share as confidence.  A text that holds 80% or less of
\* them (the merchant 'Pizza Hut Restaurant Dining' holds 3 of 20) does not
\* clear the keyword stage: when no category's share exceeds 0.8 and a
\* 'Food & Dining' pattern matches, the pattern stage categorizes it
\* 'Food & Dining' with confidence 0.85.
C13_FoodAndDiningWins ==
    LET done == IF ct_pc = "raised" THEN Len(cat_stages) - 1 ELSE Len(cat_stages)
    IN  \A i \in 1..done :
            LET text == Lower(JoinWithSpace(
                            (IF "merchant" \in DOMAIN cat_input[i]
                             THEN <<cat_input[i].merchant>> ELSE <<>>) \o
                            (IF "description" \in DOMAIN cat_input[i]
                             THEN <<cat_input[i].description>> ELSE <<>>) \o
                            (IF "raw_text" \in DOMAIN cat_input[i]
                             THEN <<cat_input[i].raw_text>> ELSE <<>>)))
                Held(c) == Cardinality({k \in 1..Len(categories[c].keywords) :
                                           IsSubstring(categories[c].keywords[k], text)})
                Size(c) == Len(categories[c].keywords)
                shopping == \E p \in {<<"a","m","a","z","o","n">>,
                                       <<"w","a","l","m","a","r","t">>,
                                       <<"t","a","r","g","e","t">>} : IsSubstring(p, text)
                foodPattern == \E p \in {<<"r","e","s","t","a","u","r","a","n","t">>,
                                          <<"f","o","o","d">>, <<"c","a","f","e">>,
                                          <<"p","i","z","z","a">>} : IsSubstring(p, text)
                conf == cat_txs[i].confidence_score
            IN  /\ categories[1].name = "Food & Dining"
                /\ (/\ 10 * Held(1) > 8 * Size(1)
                    /\ shopping
                    /\ \A c \in 2..Len(categories) :
                           Held(c) * Size(1) <= Held(1) * Size(c))
                   => /\ cat_txs[i].category = "Food & Dining"
                      /\ cat_stages[i].pattern = NotRun
                      /\ conf.num * Size(1) = Held(1) * conf.den
                /\ (/\ foodPattern
                    /\ \A c \in 1..Len(categories) : 10 * Held(c) <= 8 * Size(c))
                   => /\ cat_txs[i].category = "Food & Dining"
                      /\ cat_stages[i].pattern # NotRun
                      /\ cat_stages[i].nlp = NotRun
                      /\ conf.num * 100 = 85 * conf.den

\* a returned list with the order that holds 17 of the 20 keywords, decided
\* by the keyword stage at 17/20, and the merchant 'Pizza Hut Restaurant
\* Dining', decided by the pattern stage
C13_Witness ==
    /\ ct_pc = "returned"
    /\ \E i, j \in 1..Len(cat_stages) :
           /\ cat_txs[i].merchant = <<"A","m","a","z","o","n">>
           /\ cat_txs[i].category = "Food & Dining"
           /\ cat_txs[i].confidence_score = Frac(17, 20)
           /\ cat_stages[i].pattern = NotRun
           /\ cat_txs[j].merchant = <<"P","i","z","z","a"," ","H","u","t"," ","R","e","s",
                                      "t","a","u","r","a","n","t"," ","D","i","n","i","n","g">>
           /\ cat_txs[j].category = "Food & Dining"
           /\ cat_stages[j].keyword.confidence = Frac(3, 20)
           /\ cat_stages[j].pattern.confidence = Frac(85, 100)

C16_NlpFailureIsSwallowed ==
    /\ ct_pc # "raised"
    /\ \A i \in 1..Len(cat_stages) :
           (/\ ~Gt(cat_stages[i].keyword.confidence, Frac(8, 10))
            /\ ~Gt(cat_stages[i].pattern.confidence, Frac(7, 10))
            /\ ~Gt(cat_stages[i].nlp.confidence, Frac(6, 10)))
           => cat_stages[i].ml # NotRun

\* the positions of the categories of a table with a pattern found in the
\* lower-cased text of a transaction
CategoriesMatching(cats, transaction) ==
    {c \in 1..Len(cats) :
        \E p \in 1..Len(cats[c].patterns) :
            IsSubstring(Lower(cats[c].patterns[p]),
                        extract_text_for_analysis(transaction))}

\* what the pattern stage returned for a transaction, against the table
PatternStageTakesFirst(cats, matching, pm) ==
    /\ matching = {} => pm.confidence = Frac(0, 1)
    /\ \A c \in matching :
           (\A b \in matching : c <= b) =>
               /\ pm.category = cats[c].name
               /\ pm.confidence = Frac(85, 100)
    /\ pm.category = "Coffee" =>
           \A c \in 1..Len(InitialCategories) : c \notin matching

\* C22: the pattern stage returns the first category of the table, in
\* insertion order, with a pattern that matches the text, with confidence
\* 0.85, and the empty match when there is none; so a category made by a
\* custom rule is returned only for texts that match no pattern of the
\* categories before it.
C22_FirstMatchingCategoryWins ==
    [][ct_pc = "idle" /\ ct_pc' # "idle" =>
          \A i \in 1..Len(cat_stages') :
              cat_stages'[i].pattern # NotRun =>
                  PatternStageTakesFirst(categories,
                      CategoriesMatching(categories, cat_input[i]),
                      cat_stages'[i].pattern)]_vars

\* with the rule 'starbucks' -> 'Coffee' registered, 'Starbucks coffee' was
\* given to 'Finance', whose pattern 'fee' comes earlier in the table, and
\* 'Starbucks' to 'Coffee'
C22_Witness ==
    /\ ct_pc = "returned"
    /\ Len(cat_stages) = 2
    /\ cat_input[1] = [merchant |-> <<"S","t","a","r","b","u","c","k","s">>,
                       description |-> <<"c","o","f","f","e","e">>]
    /\ cat_input[2] = [merchant |-> <<"S","t","a","r","b","u","c","k","s">>]
    /\ cat_stages[1].pattern.category = "Finance"
    /\ cat_stages[2].pattern.category = "Coffee"
    /\ cat_txs[2].category = "Coffee"

\* the registered rules a transaction was categorized through: the pattern
\* stage decided, and the rule's pattern is the one of the first matching
\* category that matched
RulesApplied(cats, matching, transaction, stages) ==
    {rule \in RulePool :
        /\ stages.pattern # NotRun
        /\ stages.nlp = NotRun /\ stages.ml = NotRun
        /\ \E c \in matching :
              /\ \A b \in matching : c <= b
              /\ cats[c].name = rule.category
              /\ rule.pattern \in Range(cats[c].patterns)
              /\ IsSubstring(Lower(rule.pattern), extract_text_for_analysis(transaction))
              /\ \A p \in 1..Len(cats[c].patterns) :
                     IsSubstring(Lower(cats[c].patterns[p]),
                                 extract_text_for_analysis(transaction))
                         => cats[c].patterns[p] = rule.pattern}

\* C30: a transaction categorized through a rule registered with
\* add_custom_rule(pattern, category, subcategory, confidence) is reported
\* with the rule's category, subcategory and confidence.
C30_RuleFieldsReported ==
    [][ct_pc = "idle" /\ ct_pc' = "returned" =>
          \A i \in 1..Len(cat_stages') :
              \A rule \in RulesApplied(categories,
                                       CategoriesMatching(categories, cat_input[i]),
                                       cat_input[i], cat_stages'[i]) :
                  /\ cat_txs'[i].category = rule.category
                  /\ cat_txs'[i].subcategory = rule.subcategory
                  /\ cat_txs'[i].confidence_score = rule.confidence]_vars

\* the positions of the transactions of the merchant of transaction i
SameMerchant(txs, i) ==
    {j \in 1..Len(txs) : Get(txs[j], "merchant", "Unknown") = Get(txs[i], "merchant", "Unknown")}

RECURSIVE SumOver(_, _)
SumOver(f, S) ==
    IF S = {} THEN 0 ELSE LET x == CHOOSE y \in S : TRUE IN f[x] + SumOver(f, S \ {x})

\* n^3 times the population variance of the amounts at the positions S
VarianceTimesNCubed(txs, S) ==
    SumOver([j \in S |->
                (Cardinality(S) * Get(txs[j], "amount", 0)
                    - SumOver([k \in S |-> Get(txs[k], "amount", 0)], S))
                * (Cardinality(S) * Get(txs[j], "amount", 0)
                    - SumOver([k \in S |-> Get(txs[k], "amount", 0)], S))], S)

\* the group has at least 3 transactions and the population variance of its
\* amounts is less than (0.1 * mean amount)^2
Qualifies(txs, S) ==
    /\ Cardinality(S) >= 3
    /\ 100 * VarianceTimesNCubed(txs, S)
           < Cardinality(S) * SumOver([k \in S |-> Get(txs[k], "amount", 0)], S)
                            * SumOver([k \in S |-> Get(txs[k], "amount", 0)], S)

\* C23: detect_recurring_transactions marks is_recurring on, and returns,
\* exactly the transactions of the merchant groups with at least 3
\* transactions whose population variance of amounts is less than
\* (0.1 * mean amount)^2.
C23_RecurringGroupsExactly ==
    ct_pc = "returned" =>
        /\ \A i \in 1..Len(cat_input) :
               /\ "is_recurring" \in DOMAIN cat_txs[i]
                      <=> Qualifies(cat_input, SameMerchant(cat_input, i))
               /\ Qualifies(cat_input, SameMerchant(cat_input, i))
                      => cat_txs[i] \in Range(cat_returned)
        /\ \A r \in Range(cat_returned) : r \in Range(cat_txs) /\ r.is_recurring
        /\ Len(cat_returned)
               = Cardinality({i \in 1..Len(cat_input) :
                                 Qualifies(cat_input, SameMerchant(cat_input, i))})

\* three NETFLIX charges of 16, 16 and 17 and a purchase with no
\* merchant: the three charges were marked and returned, the purchase not
C23_Witness ==
    /\ ct_pc = "returned"
    /\ Len(cat_input) = 4
    /\ Len(cat_returned) = 3
    /\ \A r \in Range(cat_returned) : MerchantOf(r) = "NETFLIX"
    /\ \E r \in Range(cat_returned) : r.amount = 17 /\ r.is_recurring
    /\ \E i \in 1..4 : "merchant" \notin DOMAIN cat_txs[i]
                       /\ "is_recurring" \notin DOMAIN cat_txs[i]

-----------------------------------------------------------------------------
(* Claims about TransactionExtractor                                        *)

\* C6: every transaction extract_transactions returns, from the line
\* strategy or the tabular strategy, has a parsed date and a parsed amount;
\* no candidate without one of them, and none that carries an unparsed
\* date string, is collected or returned.
C6_DateAndAmountRequired ==
    ex_pc = "returned" =>
        \A t \in Range(ex_candidates) \cup Range(ex_result) :
            /\ "date" \in DOMAIN t
            /\ t.date # 0
            /\ "amount" \in DOMAIN t
            /\ "date_string" \notin DOMAIN t

\* extract_transactions has returned transactions of both strategies on a
\* text with a line that has a date token and an amount token but gave no
\* transaction of the line strategy
C6_Witness ==
    /\ ex_pc = "returned"
    /\ \E t \in Range(ex_result) : "line_number" \in DOMAIN t
    /\ \E t \in Range(ex_result) : "table_fields" \in DOMAIN t
    /\ \E i \in 1..Len(ex_is_tx) :
           /\ ex_is_tx[i]
           /\ \A t \in Range(ex_candidates) :
                  "line_number" \in DOMAIN t => t.line_number # i - 1

\* C7: deduplicate_transactions returns, in their original order, exactly
\* the candidates whose key (date, amount, first 20 characters of the
\* merchant, '' without merchant) differs from the key of every earlier
\* candidate; the keys of the returned candidates are pairwise distinct.
C7_FirstOfEachKeySurvives ==
    LET K(t) == << "date" \in DOMAIN t, IF "date" \in DOMAIN t THEN t.date ELSE 0,
                   "amount" \in DOMAIN t, IF "amount" \in DOMAIN t THEN t.amount ELSE 0,
                   IF "merchant" \in DOMAIN t
                   THEN SubSeq(t.merchant, 1, IF Len(t.merchant) < 20
                                              THEN Len(t.merchant) ELSE 20)
                   ELSE <<>> >>
        FirstOfKey(in) == {i \in 1..Len(in) : \A j \in 1..(i - 1) : K(in[j]) # K(in[i])}
        Nth(S, n) == CHOOSE i \in S : Cardinality({j \in S : j <= i}) = n
        Deduplicated(in, out) ==
            /\ Len(out) = Cardinality(FirstOfKey(in))
            /\ \A n \in 1..Len(out) : out[n] = in[Nth(FirstOfKey(in), n)]
            /\ \A m, n \in 1..Len(out) : K(out[m]) = K(out[n]) => m = n
    IN  /\ dd_pc = "returned" => Deduplicated(dd_input, dd_output)
        /\ ex_pc = "returned" => Deduplicated(ex_candidates, ex_result)

\* deduplicate_transactions has returned two of three candidates: the one
\* dropped has a merchant that differs from an earlier candidate's only
\* after the 20th character, and a candidate that differs from both in
\* one component of the key is kept
C7_Witness ==
    /\ dd_pc = "returned"
    /\ Len(dd_input) = 3
    /\ Len(dd_output) = 2
    /\ \E i, j \in 1..3 :
           /\ i < j
           /\ {"date", "amount", "merchant"} \subseteq DOMAIN dd_input[i]
           /\ {"date", "amount", "merchant"} \subseteq DOMAIN dd_input[j]
           /\ Len(dd_input[i].merchant) > 20
           /\ Len(dd_input[j].merchant) > 20
           /\ dd_input[i].merchant # dd_input[j].merchant
           /\ SubSeq(dd_input[i].merchant, 1, 20) = SubSeq(dd_input[j].merchant, 1, 20)
           /\ dd_input[i].date = dd_input[j].date
           /\ dd_input[i].amount = dd_input[j].amount
           /\ dd_output[1] = dd_input[i]

\* C8: is_transaction_line returns true only for a line with a date token
\* and an amount token (a match of one of the date patterns and of one of
\* the amount patterns); for a line with only one of the two it returns
\* false.
C8_TransactionLineNeedsBoth ==
    \A i \in 1..Len(ex_is_tx) :
        LET line == CleanedLines(ex_text)[i]
        IN  /\ ex_is_tx[i] => (has_date(line) /\ has_amount(line))
            /\ (has_amount(line) /\ ~has_date(line)) => ~ex_is_tx[i]
            /\ (has_date(line) /\ ~has_amount(line)) => ~ex_is_tx[i]

\* extract_transactions has tested a line with an amount and no date, a
\* line with a date and no amount, and a line with both
C8_Witness ==
    /\ ex_pc = "returned"
    /\ \E i, j, k \in 1..Len(ex_is_tx) :
           LET lines == CleanedLines(ex_text)
           IN  /\ has_amount(lines[i]) /\ ~has_date(lines[i]) /\ ~ex_is_tx[i]
               /\ has_date(lines[j]) /\ ~has_amount(lines[j]) /\ ~ex_is_tx[j]
               /\ ex_is_tx[k]

\* what dateparser can make of the date token of a line
DateTokenDates(line) == ParsedDates(FirstGroup(date_patterns, line, 1))

\* the records of the line-oriented strategy for cleaned line i
RecordsOfLine(records, i) ==
    {r \in Range(records) : "line_number" \in DOMAIN r /\ r.line_number = i - 1}

\* C18: extract_transactions returns for every text; a line whose date token
\* dateparser cannot read, or that lacks a date or an amount, gives no
\* record, and every line with an amount and a date dateparser reads has its
\* record (or one with the same deduplication key) in the list returned.
C18_FailuresStayLocal ==
    ex_pc = "returned" =>
        \A i \in 1..Len(CleanedLines(ex_text)) :
            /\ ex_is_tx[i] /\ NoDate \notin DateTokenDates(CleanedLines(ex_text)[i]) =>
                   \E c \in RecordsOfLine(ex_candidates, i) :
                       \E r \in Range(ex_result) : TransactionKey(r) = TransactionKey(c)
            /\ ~ex_is_tx[i] \/ DateTokenDates(CleanedLines(ex_text)[i]) = {NoDate} =>
                   RecordsOfLine(ex_result, i) = {}

\* a statement whose second line has a date token that is no day of the
\* calendar: the first and the third line are returned, the second is not
C18_Witness ==
    /\ ex_pc = "returned"
    /\ Len(ex_text) = 3
    /\ ex_is_tx = <<TRUE, TRUE, TRUE>>
    /\ DateTokenDates(CleanedLines(ex_text)[2]) = {NoDate}
    /\ RecordsOfLine(ex_result, 1) # {}
    /\ RecordsOfLine(ex_result, 2) = {}
    /\ RecordsOfLine(ex_result, 3) # {}

\* the records of the tabular strategy among the candidates
TabularRecords(records) == {r \in Range(records) : "table_fields" \in DOMAIN r}

\* the positions of the lines with at least two numeric-looking fields
NumericLines(lines) == {k \in 1..Len(lines) : count_numeric_fields(lines[k]) >= 2}

\* a field dateparser reads as a date, and one it may read as a date
SurelyDate(field) == NoDate \notin DateparserParse(field)

MaybeDate(field) == DateparserParse(field) # {NoDate}

AmountIn(field) == Search(table_amount_pattern, field, 1)

\* the row splits into at least 3 fields with a date and an amount among them
MustPromote(fields) ==
    /\ Len(fields) >= 3
    /\ \E j \in 1..Len(fields) : SurelyDate(fields[j])
    /\ \E j \in 1..Len(fields) : AmountIn(fields[j]).found

MayPromote(fields) ==
    /\ Len(fields) >= 3
    /\ \E j \in 1..Len(fields) : MaybeDate(fields[j])
    /\ \E j \in 1..Len(fields) : AmountIn(fields[j]).found

\* the date and the amount of a record are those of the leftmost field of
\* each type
LeftmostUsed(r) ==
    /\ \E j \in 1..Len(r.table_fields) :
          /\ r.date \in DateparserParse(r.table_fields[j]) \ {NoDate}
          /\ \A i \in 1..(j - 1) : ~SurelyDate(r.table_fields[i])
    /\ \E j \in 1..Len(r.table_fields) :
          /\ AmountIn(r.table_fields[j]).found
          /\ r.amount = ToAmount(AmountIn(r.table_fields[j]).group)
          /\ \A i \in 1..(j - 1) : ~AmountIn(r.table_fields[i]).found

\* every line with two numeric-looking fields is promoted exactly when it
\* has 3 fields with a date and an amount, from the leftmost of each
RowsPromoted ==
    /\ \A k \in NumericLines(ex_text) :
          /\ MustPromote(split_table_line(ex_text[k])) =>
                 \E r \in TabularRecords(ex_candidates) : r.raw_text = ex_text[k]
          /\ (\E r \in TabularRecords(ex_candidates) : r.raw_text = ex_text[k]) =>
                 MayPromote(split_table_line(ex_text[k]))
    /\ \A r \in TabularRecords(ex_candidates) : LeftmostUsed(r)

\* C20 as stated: every line with at least two numeric-looking fields is a
\* table row, whatever the number of such lines, and is promoted exactly
\* when it splits into at least 3 fields with a date-parseable and an
\* amount-parseable field, the leftmost of each type being used.
C20_EveryNumericLineIsARow == ex_pc = "returned" => RowsPromoted

\* C20, amended: the same when the document has more than three lines with
\* at least two numeric-looking fields; with three or fewer of them the
\* tabular strategy promotes nothing.
C20_RowsOfFourLineTables ==
    ex_pc = "returned" =>
        IF Cardinality(NumericLines(ex_text)) > 3
        THEN RowsPromoted
        ELSE TabularRecords(ex_candidates) = {}

\* a statement of four rows, one of them of two fields: the rows of three
\* fields were promoted, the amount-first row with the amount of its second
\* field, and the row of two fields was not
C20_Witness ==
    /\ ex_pc = "returned"
    /\ Cardinality(NumericLines(ex_text)) = 4
    /\ \E k \in 1..4 : Len(split_table_line(ex_text[k])) = 2
    /\ \E r \in TabularRecords(ex_candidates) :
           /\ r.table_fields[1] = <<"S", "T", "A", "R", "B", "U", "C", "K", "S">>
           /\ r.amount = 450
    /\ \A r \in TabularRecords(ex_candidates) : Len(r.table_fields) = 3

-----------------------------------------------------------------------------
(* Claims about ReminderService                                             *)

\* C9: _calculate_payoff_time returns 999, without entering its loop, when
\* payment <= balance * monthly_rate; on every other input the body of the
\* loop runs at most 600 times and the value returned is the number of
\* iterations, between 0 and 600.
C9_PayoffTimeBounded ==
    /\ pf_iterations <= 600
    /\ pf_pc = "returned" =>
           IF pf_payment * pf_rate.den <= pf_balance * pf_rate.num
           THEN pf_result = 999 /\ pf_iterations = 0
           ELSE pf_result = pf_iterations /\ 0 <= pf_result /\ pf_result <= 600

\* a call whose payment covers the interest has returned 600 with a balance
\* still to pay
C9_Witness ==
    /\ pf_pc = "returned"
    /\ pf_payment * pf_rate.den > pf_balance * pf_rate.num
    /\ pf_result = 600
    /\ remaining > 0

\* C24: _calculate_total_interest returns infinity whenever
\* payment <= balance * monthly_rate, and on every other input the remaining
\* balance strictly decreases at every iteration of the loop, so that the
\* loop ends.
C24_InterestLoopTerminates ==
    [][/\ pf_pc = "idle" /\ pf_pc' # "idle" =>
             ((pf_pc' = "returned" /\ pf_result' = "inf")
                 <=> pf_payment' <= Float(pf_balance' * pf_rate'.num, pf_rate'.den))
       /\ pf_pc = "loop" /\ pf_pc' = "loop" => remaining' < remaining]_vars

\* C29: for the same balance, payment and monthly rate,
\* calculate_interest_charges reports the months_to_payoff that
\* _calculate_payoff_time returns and the total interest that
\* _calculate_total_interest returns.
C29_SameProjectionInBothServices ==
    pf_pc = "returned" =>
        /\ pf_result.scenario.months_to_payoff = pf_result.payoff.months
        /\ pf_result.scenario.total_interest = pf_result.interest.total_interest

-----------------------------------------------------------------------------
(* Claims about EmailParser                                                 *)

\* C25: every transaction extract_transactions_from_email produces has an
\* amount and a date that is not None; an e-mail with an amount but no date,
\* in the body or in the Date header, produces no transaction.
C25_EmailTransactionsHaveAmountAndDate ==
    em_pc = "returned" =>
        /\ \A i \in 1..Len(em_transactions) :
               /\ em_transactions[i].amount \in {450, 1200}
               /\ em_transactions[i].date \in {12, 15, 20}
        /\ ("dates" \notin DOMAIN email_data.extracted_info
               /\ email_data.date # "Mon, 15 Jan 2024") => em_transactions = <<>>

-----------------------------------------------------------------------------
(* Claims about CreditCardReminderApp                                       *)

\* C26: over any sequence of scan_and_store_payments and
\* check_and_send_reminders runs, at most one reminder is sent for a payment
\* (bank, card last four, due date).
C26_ReminderSentAtMostOnce ==
    \A i \in 1..Len(delivered) : \A j \in 1..Len(delivered) :
        delivered[i] = delivered[j] => i = j

\* C27: a payment is marked reminder_sent only if the reminder e-mail for
\* it was sent.
C27_MarkedOnlyIfSent ==
    \A i \in 1..Len(payments) :
        payments[i].reminder_sent =>
            \E j \in 1..Len(delivered) :
                /\ delivered[j].bank_name = payments[i].bank_name
                /\ delivered[j].card_last_four = payments[i].card_last_four
                /\ delivered[j].due_date = payments[i].due_date

\* the positions of the unsent reminders of a card and a due date
Unsent(table, card, due_date) ==
    {i \in 1..Len(table) :
        /\ table[i].credit_card_id = card
        /\ table[i].due_date = due_date
        /\ table[i].reminder_sent = FALSE}

\* what a create_payment_reminder call on a card did: nothing, with None
\* returned, when the card has no due date; the unsent reminder of the card
\* and due date returned when there was one; a new unsent reminder otherwise
CreatedOrFound(before, after, card, due_date, result) ==
    IF due_date = "" THEN after = before /\ result = <<>>
    ELSE IF Unsent(before, card, due_date) # {}
    THEN /\ after = before
         /\ Len(result) = 1
         /\ \E i \in Unsent(before, card, due_date) : result[1] = before[i]
    ELSE /\ Len(after) = Len(before) + 1
         /\ SubSeq(after, 1, Len(before)) = before
         /\ Unsent(after, card, due_date) = {Len(after)}
         /\ result = <<after[Len(after)]>>

\* C28: after any sequence of create_payment_reminder and mark_reminder_sent
\* calls there is at most one unsent PaymentReminder for each credit card and
\* due date; create_payment_reminder returns the existing unsent reminder
\* instead of adding one, and adds nothing and returns None for a card
\* without a due date.
C28_OneUnsentReminderPerCardAndDate ==
    [][/\ \A card \in {1, 2}, due_date \in {"2024-02-05", "2024-03-05"} :
              Cardinality(Unsent(payment_reminders', card, due_date)) <= 1
       /\ rm_returned' # rm_returned =>
              CreatedOrFound(payment_reminders, payment_reminders', rm_returned'.card,
                             credit_cards[rm_returned'.card], rm_returned'.result)]_vars

\* card 1 has a sent and an unsent reminder for the same due date, and the
\* last call returned the unsent one
C28_Witness ==
    /\ Len(payment_reminders) = 2
    /\ payment_reminders[1].credit_card_id = 1
    /\ payment_reminders[2].credit_card_id = 1
    /\ payment_reminders[1].due_date = payment_reminders[2].due_date
    /\ payment_reminders[1].reminder_sent
    /\ ~payment_reminders[2].reminder_sent
    /\ rm_returned.result = <<payment_reminders[2]>>

-----------------------------------------------------------------------------
(* Claims about the instances over several calls                            *)

\* C17: the result of categorize_single_transaction on a transaction, and of
\* detect_anomalies on a batch, is the result an instance just constructed
\* gives for it, whatever the instance processed before.
C17_ResultIndependentOfHistory == lc_last.result = lc_last.fresh

\* a transaction was categorized by the similarity stage of an instance whose
\* vectorizer had been fit on another transaction's text
C17_Witness ==
    /\ lc_last.refit
    /\ lc_last.call[1] = "categorize"
    /\ lc_last.result.category = "Education"

=============================================================================
